---------------------------- MODULE Spec2Model ----------------------------
(***************************************************************************)
(* Model of the annotation engine of app/agents/docx_annotator.py:         *)
(* annotate_docx and the helpers it calls.  Texts are strings; Python's    *)
(* 0-based indices are kept as values (paragraph k is doc[k + 1]).  An     *)
(* Optional[int] is a set holding at most one integer (None is {}).        *)
(***************************************************************************)
EXTENDS Integers, Sequences, FiniteSets, TLC

(* ------------------------------ bounds -------------------------------- *)
\* longest document (number of paragraphs) that Init draws
MaxParas == 2
\* longest issue list that Init draws
MaxIssues == 2
\* longest list returned by the LLM's generate_json_list
MaxReply == 1

(* -------------------------- program constants ------------------------- *)
\* c[:30] of _find_paragraph_index
PrefixLen == 30
\* best_score >= 0.2 of _semantic_anchor, in thousandths
SemThreshold == 200
\* best_score = -1.0 of _semantic_anchor, in thousandths
SemInitScore == -1000

(* ------------------------------ strings ------------------------------- *)
None == {}
Some(x) == {x}
Val(o) == CHOOSE x \in o : TRUE

Min(a, b) == IF a <= b THEN a ELSE b

\* str.lower() on one character (ASCII letters)
LowerMap ==
  [A |-> "a", B |-> "b", C |-> "c", D |-> "d", E |-> "e", F |-> "f", G |-> "g",
   H |-> "h", I |-> "i", J |-> "j", K |-> "k", L |-> "l", M |-> "m", N |-> "n",
   O |-> "o", P |-> "p", Q |-> "q", R |-> "r", S |-> "s", T |-> "t", U |-> "u",
   V |-> "v", W |-> "w", X |-> "x", Y |-> "y", Z |-> "z"]

UpperChars == DOMAIN LowerMap
LowerChars == {LowerMap[u] : u \in UpperChars}

LowerChar(c) == IF c \in UpperChars THEN LowerMap[c] ELSE c

RECURSIVE LowerRange(_, _, _)
\* the characters i..j of s, each lowered
LowerRange(s, i, j) ==
  IF i > j THEN ""
  ELSE IF i = j THEN LowerChar(SubSeq(s, i, i))
  ELSE LET m == (i + j) \div 2
       IN  LowerRange(s, i, m) \o LowerRange(s, m + 1, j)

\* str.lower()
Lower(s) == LowerRange(s, 1, Len(s))

\* s[:n]
Prefix(s, n) == SubSeq(s, 1, Min(n, Len(s)))

\* t in s (Python substring test)
Contains(s, t) ==
  \E k \in 1..(Len(s) - Len(t) + 1) : SubSeq(s, k, k + Len(t) - 1) = t

\* the k-th character of s, 1-based
CharAt(s, k) == SubSeq(s, k, k)


(* ------------------------------ inputs -------------------------------- *)
\* texts of the paragraphs a document is drawn from
ParaTexts ==
  { "",
    "This Agreement shall be governed by UAE Federal Courts.",
    "ADGM Companies Regulations 2021 apply.",
    "ADGM Companies Regulations 2019 apply.",
    "Registered office address: Abu Dhabi." }

\* IssueEvidence (app/models/schemas.py); "" stands for an absent source_url
Ev1 == [ref_id |-> "regs.pdf#chunk-3",
        snippet |-> "ADGM Companies Regulations 2020, Article 12 applies.",
        source_url |-> ""]

Ev2 == [ref_id |-> "guide.pdf#chunk-0",
        snippet |-> "A registered office must be in ADGM.",
        source_url |-> "https://adgm.example/guide"]

\* IssueItem (app/models/schemas.py); "" stands for an absent suggestion
IssueJur == [section |-> "", issue |-> "Jurisdiction references non-ADGM courts.",
             severity |-> "High", evidence |-> <<>>, suggestion |-> ""]
IssueSig == [section |-> "", issue |-> "Missing explicit signatory section.",
             severity |-> "Medium", evidence |-> <<>>, suggestion |-> ""]
IssueAddr == [section |-> "Clause 2", issue |-> "Registered address is incomplete.",
              severity |-> "Low", evidence |-> <<Ev1, Ev2>>,
              suggestion |-> "State the full address."]

\* an issue as the LLM path of check_compliance can build it: severity ""
IssuePlain == [section |-> "", issue |-> "Court named is outside ADGM.",
               severity |-> "", evidence |-> <<>>, suggestion |-> ""]

IssuePool == {IssueJur, IssueSig, IssueAddr}

\* all sequences over S of length at most n
SeqUpTo(S, n) == UNION {[1..k -> S] : k \in 0..n}

(* ----------------------------- document ------------------------------- *)
\* a w:r run holding text
Run(t, fmt) == [kind |-> "run", text |-> t, id |-> "", fmt |-> fmt, hl |-> FALSE]
\* a comment marker: commentRangeStart, commentRangeEnd, or the w:r holding
\* the commentReference
Marker(k, id) == [kind |-> k, text |-> "", id |-> id, fmt |-> "plain", hl |-> FALSE]

\* a body paragraph: style and child elements in order
Para(style, els) == [style |-> style, els |-> els]

RECURSIVE ElsText(_)
ElsText(els) ==
  IF els = <<>> THEN ""
  ELSE (IF Head(els).kind = "run" THEN Head(els).text ELSE "") \o ElsText(Tail(els))

\* paragraph.text: the texts of the paragraph's runs, concatenated
ParaText(p) == ElsText(p.els)

\* [p.text for p in doc.paragraphs]
DocTexts(d) == [k \in 1..Len(d) |-> ParaText(d[k])]

\* the document python-docx loads from a file with the given paragraph texts
LoadDoc(texts) ==
  [k \in 1..Len(texts) |->
     Para("Normal", IF texts[k] = "" THEN <<>> ELSE <<Run(texts[k], "plain")>>)]

(* --------------------------- the strategies --------------------------- *)
\* candidates of annotate_docx: first evidence snippet, issue text, section
Candidates(issue) ==
  (IF issue.evidence # <<>> /\ issue.evidence[1].snippet # ""
     THEN <<issue.evidence[1].snippet>> ELSE <<>>)
  \o (IF issue.issue # "" THEN <<issue.issue>> ELSE <<>>)
  \o (IF issue.section # "" THEN <<issue.section>> ELSE <<>>)

\* [c.lower() for c in candidates if c]
LoweredCandidates(cands) ==
  LET kept == SelectSeq(cands, LAMBDA c : c # "")
  IN  [k \in 1..Len(kept) |-> Lower(kept[k])]

RECURSIVE FindFrom_Prefix29(_, _, _)
\* FindFrom comparing one character less than PrefixLen
FindFrom_Prefix29(texts, lc, idx) ==
  IF idx >= Len(texts) THEN None
  ELSE LET txt == Lower(texts[idx + 1])
       IN  IF \E k \in 1..Len(lc) :
                 lc[k] # "" /\ Contains(txt, Prefix(lc[k], PrefixLen - 1))
             THEN Some(idx)
             ELSE FindFrom_Prefix29(texts, lc, idx + 1)

RECURSIVE FindFrom(_, _, _)
\* the loop of _find_paragraph_index from paragraph idx on
FindFrom(texts, lc, idx) ==
  IF idx >= Len(texts) THEN None
  ELSE LET txt == Lower(texts[idx + 1])
       IN  IF \E k \in 1..Len(lc) :
                 lc[k] # "" /\ Contains(txt, Prefix(lc[k], PrefixLen))
             THEN Some(idx)
             ELSE FindFrom(texts, lc, idx + 1)

_find_paragraph_index(texts, cands) ==
  LET lc == LoweredCandidates(cands)
  IN  IF lc = <<>> THEN None ELSE FindFrom(texts, lc, 0)

JurKeywords == <<"jurisdiction", "court", "uae", "abu dhabi", "adgm">>
AddrKeywords == <<"address", "registered office">>

\* Keywords without the test for absence issues
Keywords_NoAbsenceTest(issue) ==
  LET text == Lower(issue.issue)
      kw1 == IF Contains(text, "jurisdiction") \/ Contains(text, "court")
               THEN JurKeywords ELSE <<>>
  IN  IF Contains(text, "address") THEN kw1 \o AddrKeywords ELSE kw1

\* the keywords list _keyword_anchor builds from the issue text
Keywords(issue) ==
  LET text == Lower(issue.issue)
      kw1 == IF Contains(text, "jurisdiction") \/ Contains(text, "court")
               THEN JurKeywords ELSE <<>>
      kw2 == IF Contains(text, "address") THEN kw1 \o AddrKeywords ELSE kw1
  IN  IF Contains(text, "signature")
         \/ (Contains(text, "adgm") /\ Contains(text, "not"))
        THEN <<>> ELSE kw2

\* sum(1 for k in keywords if k in pt)
Hits(keywords, pt) == Cardinality({k \in 1..Len(keywords) : Contains(pt, keywords[k])})

RECURSIVE KwScan_LastTie(_, _, _, _, _)
\* KwScan with "hits >= best_hits": the last of the tied paragraphs wins
KwScan_LastTie(texts, keywords, idx, best_idx, best_hits) ==
  IF idx >= Len(texts) THEN (IF best_hits > 0 THEN best_idx ELSE None)
  ELSE LET hits == Hits(keywords, Lower(texts[idx + 1]))
       IN  IF hits >= best_hits
             THEN KwScan_LastTie(texts, keywords, idx + 1, Some(idx), hits)
             ELSE KwScan_LastTie(texts, keywords, idx + 1, best_idx, best_hits)

RECURSIVE KwScan(_, _, _, _, _)
\* the scoring loop of _keyword_anchor from paragraph idx on
KwScan(texts, keywords, idx, best_idx, best_hits) ==
  IF idx >= Len(texts) THEN (IF best_hits > 0 THEN best_idx ELSE None)
  ELSE LET hits == Hits(keywords, Lower(texts[idx + 1]))
       IN  IF hits > best_hits
             THEN KwScan(texts, keywords, idx + 1, Some(idx), hits)
             ELSE KwScan(texts, keywords, idx + 1, best_idx, best_hits)

_keyword_anchor(texts, issue) ==
  LET keywords == Keywords(issue)
  IN  IF keywords = <<>> THEN None ELSE KwScan(texts, keywords, 0, None, 0)

RECURSIVE SemScan_Strict(_, _, _, _)
\* SemScan with "best_score > 0.2": a highest score of exactly 0.2 is rejected
SemScan_Strict(scores, i, best_idx, best_score) ==
  IF i >= Len(scores)
    THEN (IF best_idx # None /\ best_score > SemThreshold THEN best_idx ELSE None)
  ELSE IF scores[i + 1] > best_score
    THEN SemScan_Strict(scores, i + 1, Some(i), scores[i + 1])
    ELSE SemScan_Strict(scores, i + 1, best_idx, best_score)

RECURSIVE SemScan(_, _, _, _)
\* the scoring loop of _semantic_anchor from paragraph i on; scores[i + 1] is
\* float((par_emb[i] * q_emb).sum()) in thousandths
SemScan(scores, i, best_idx, best_score) ==
  IF i >= Len(scores)
    THEN (IF best_idx # None /\ best_score >= SemThreshold THEN best_idx ELSE None)
  ELSE IF scores[i + 1] > best_score
    THEN SemScan(scores, i + 1, Some(i), scores[i + 1])
    ELSE SemScan(scores, i + 1, best_idx, best_score)

\* emb is the outcome of the embed_texts calls: emb.raised when one raises,
\* else emb.scores holds the per-paragraph scores
_semantic_anchor(texts, issue, emb) ==
  IF issue.issue = "" THEN None
  ELSE IF texts = <<>> THEN None
  ELSE IF emb.raised THEN None
  ELSE SemScan(emb.scores, 0, None, SemInitScore)


(* ----------------------------- formatting ----------------------------- *)
Digits == "0123456789"
IsDigit(c) == c # "" /\ Contains(Digits, c)
IsAlpha(c) == c \in UpperChars \/ c \in LowerChars
IsSpace(c) == c \in {" ", "\t", "\n", "\r"}

RECURSIVE ToStr(_)
\* str(n) for n >= 0
ToStr(n) ==
  IF n < 10 THEN CharAt(Digits, n + 1)
  ELSE ToStr(n \div 10) \o CharAt(Digits, (n % 10) + 1)

\* the value of one decimal digit
DigitVal(c) == CHOOSE d \in 0..9 : CharAt(Digits, d + 1) = c

RECURSIVE ParseFrom(_, _)
ParseFrom(s, acc) ==
  IF s = "" THEN acc ELSE ParseFrom(Tail(s), 10 * acc + DigitVal(Head(s)))

\* int(cid) succeeds (a decimal numeral); otherwise it raises ValueError
IsNumeral(s) == s # "" /\ \A k \in 1..Len(s) : IsDigit(CharAt(s, k))
\* int(cid)
ParseInt(s) == ParseFrom(s, 0)

\* the lowered text ls holds the literal at position k (re.IGNORECASE)
LitAt(ls, k, lit) ==
  /\ k >= 1
  /\ k + Len(lit) - 1 <= Len(ls)
  /\ SubSeq(ls, k, k + Len(lit) - 1) = lit

RECURSIVE SpaceRun(_, _)
\* the length of the longest run of whitespace from position k on (\s*)
SpaceRun(s, k) ==
  IF k <= Len(s) /\ IsSpace(CharAt(s, k)) THEN 1 + SpaceRun(s, k + 1) ELSE 0

RECURSIVE DigitRun(_, _)
\* the length of the longest run of digits from position k on (\d+)
DigitRun(s, k) ==
  IF k <= Len(s) /\ IsDigit(CharAt(s, k)) THEN 1 + DigitRun(s, k + 1) ELSE 0

\* group 1 of the pattern of _short_citation starting at a and with
\* "Regulations" at r: ADGM[^\n\r,]*?Regulations\s*\d{4}; its end, or 0.
\* ls is the lowered snippet
LawEnd(ls, a, r) ==
  IF /\ LitAt(ls, a, "adgm")
     /\ r >= a + 4
     /\ \A k \in (a + 4)..(r - 1) : CharAt(ls, k) \notin {"\n", "\r", ","}
     /\ LitAt(ls, r, "regulations")
    THEN LET d == r + 11 + SpaceRun(ls, r + 11)
         IN  IF d + 3 <= Len(ls) /\ \A k \in d..(d + 3) : IsDigit(CharAt(ls, k))
               THEN d + 3 ELSE 0
    ELSE 0

\* groups 2 and 3 of the pattern at position g: (Article|Art\.)\s*(\d+[A-Za-z]?);
\* the span <<first, last>> of the article number, or <<>> when there is no
\* match at g
ArtAt(ls, g) ==
  LET w == IF LitAt(ls, g, "article") THEN 7 ELSE IF LitAt(ls, g, "art.") THEN 4 ELSE 0
      d == g + w + SpaceRun(ls, g + w)
      n == DigitRun(ls, d)
      l == IF d + n <= Len(ls) /\ IsAlpha(CharAt(ls, d + n)) THEN 1 ELSE 0
  IN  IF w = 0 \/ n = 0 THEN <<>> ELSE <<d, d + n + l - 1>>

\* the gaps .{0,40}? after the law that lead to an article match
Gaps(ls, e) ==
  {g \in 0..40 : /\ e + g <= Len(ls)
                 /\ \A k \in (e + 1)..(e + g) : CharAt(ls, k) # "\n"
                 /\ ArtAt(ls, e + g + 1) # <<>>}

\* the starts a at which group 1 can begin
CiteStarts(ls) == {a \in 1..Len(ls) : LitAt(ls, a, "adgm")}

\* the positions r of "Regulations" with which the whole pattern matches from a
CiteRegs(ls, a) ==
  {r \in (a + 4)..Len(ls) :
     LitAt(ls, r, "regulations") /\ LawEnd(ls, a, r) # 0 /\ Gaps(ls, LawEnd(ls, a, r)) # {}}

SetMin(S) == CHOOSE x \in S : \A y \in S : x <= y

\* _short_citation that returns "" for an evidence without snippet
_short_citation_EmptyOnEmpty(ev) ==
  LET s == ev.snippet
      ls == Lower(s)
      as == {a \in CiteStarts(ls) : CiteRegs(ls, a) # {}}
  IN  IF s = "" THEN ""
      ELSE IF as = {} THEN ev.ref_id
      ELSE LET a == SetMin(as)
               r == SetMin(CiteRegs(ls, a))
               e == LawEnd(ls, a, r)
               g == SetMin(Gaps(ls, e))
               art == ArtAt(ls, e + g + 1)
           IN  SubSeq(s, a, e) \o ", Art. " \o SubSeq(s, art[1], art[2])

\* _short_citation(ev): re.search takes the leftmost start, the lazy
\* quantifiers the shortest law and the shortest gap that lead to a match
_short_citation(ev) ==
  LET s == ev.snippet
      ls == Lower(s)
      as == {a \in CiteStarts(ls) : CiteRegs(ls, a) # {}}
  IN  IF as = {} THEN ev.ref_id
      ELSE LET a == SetMin(as)
               r == SetMin(CiteRegs(ls, a))
               e == LawEnd(ls, a, r)
               g == SetMin(Gaps(ls, e))
               art == ArtAt(ls, e + g + 1)
           IN  SubSeq(s, a, e) \o ", Art. " \o SubSeq(s, art[1], art[2])

\* cite of annotate_docx
Cite(it) == IF it.evidence # <<>> THEN _short_citation(it.evidence[1]) ELSE ""

\* NotePart that appends the suggestion clause without testing it.suggestion
NotePart_SuggestionAlways(i, it) ==
  LET cite == Cite(it)
  IN  ToStr(i) \o ". "
      \o (IF it.severity # "" THEN "[" \o it.severity \o "] " ELSE "")
      \o it.issue
      \o (IF cite # "" THEN " (Per " \o cite \o ")" ELSE "")
      \o " Suggestion: " \o it.suggestion

\* one part of the note of a paragraph group (annotate_docx, the inner loop)
NotePart(i, it) ==
  LET cite == Cite(it)
  IN  ToStr(i) \o ". "
      \o (IF it.severity # "" THEN "[" \o it.severity \o "] " ELSE "")
      \o it.issue
      \o (IF cite # "" THEN " (Per " \o cite \o ")" ELSE "")
      \o (IF it.suggestion # "" THEN " Suggestion: " \o it.suggestion ELSE "")

RECURSIVE JoinParts(_, _)
\* sep.join(parts)
JoinParts(parts, sep) ==
  IF parts = <<>> THEN ""
  ELSE IF Len(parts) = 1 THEN parts[1]
  ELSE parts[1] \o sep \o JoinParts(Tail(parts), sep)


(* ------------------------- the batch refinement ----------------------- *)
\* a JSON value read with item.get(...): an int, or anything else
\* (a string, null, a missing key)
JInt(v) == [int |-> TRUE, v |-> v]
JOther == [int |-> FALSE, v |-> 0]

\* one element of the list generate_json_list returns; dict is FALSE for an
\* element that is not a JSON object
Item(ii, pi) == [dict |-> TRUE, issue_idx |-> ii, paragraph_idx |-> pi]
NotADict == [dict |-> FALSE, issue_idx |-> JOther, paragraph_idx |-> JOther]

RECURSIVE Strip(_)
\* str.strip()
Strip(s) ==
  IF s = "" THEN ""
  ELSE IF IsSpace(Head(s)) THEN Strip(Tail(s))
  ELSE IF IsSpace(CharAt(s, Len(s))) THEN Strip(SubSeq(s, 1, Len(s) - 1))
  ELSE s

\* paras of _llm_anchor_map is not empty
HasDigest(texts) == \E k \in 1..Len(texts) : Strip(texts[k]) # ""

\* the call llm.generate_json_list(prompt) is reached
LlmCalled(texts, iss, client) == client /\ iss # <<>> /\ HasDigest(texts)

EmptyMap == <<>>

RECURSIVE BuildMap(_, _)
\* the loop over data of _llm_anchor_map: later items override earlier ones
BuildMap(data, result) ==
  IF data = <<>> THEN result
  ELSE LET item == Head(data)
       IN  IF item.issue_idx.int /\ item.paragraph_idx.int
             THEN BuildMap(Tail(data),
                           (item.issue_idx.v :> item.paragraph_idx.v) @@ result)
             ELSE BuildMap(Tail(data), result)

\* _llm_anchor_map(doc, issues); call is the outcome of generate_json_list:
\* call.raised, or the list call.data
_llm_anchor_map(texts, iss, client, call) ==
  IF ~client \/ iss = <<>> THEN EmptyMap
  ELSE IF ~HasDigest(texts) THEN EmptyMap
  ELSE IF call.raised THEN EmptyMap
  ELSE IF \E k \in 1..Len(call.data) : ~call.data[k].dict THEN EmptyMap
  ELSE BuildMap(call.data, EmptyMap)

(* --------------------------- the comment store ------------------------ *)
\* a w:comment of the comment store; id is the w:id attribute, None if absent
Comment(id, text) == [id |-> id, text |-> text]

RECURSIVE ScanIds(_, _)
\* the loop over existing of _add_word_comment; -1 stands for an exception
ScanIds(existing, next_id) ==
  IF existing = <<>> THEN next_id
  ELSE LET cid == Head(existing).id
       IN  IF cid = None THEN ScanIds(Tail(existing), next_id)
           ELSE IF ~IsNumeral(Val(cid)) THEN -1
           ELSE LET v == ParseInt(Val(cid))
                IN  ScanIds(Tail(existing), IF v > next_id THEN v ELSE next_id)

\* NextId without the "next_id += 1" after the loop
NextId_NoIncrement(existing) ==
  LET m == ScanIds(existing, 0)
  IN  IF m = -1 THEN 0 ELSE m

\* "determine next comment id" of _add_word_comment
NextId(existing) ==
  LET m == ScanIds(existing, 0)
  IN  IF m = -1 THEN 0 ELSE m + 1

\* WithMarkers with the range start appended instead of inserted at 0
WithMarkers_StartAppended(p, next_id) ==
  [p EXCEPT !.els = @ \o <<Marker("start", ToStr(next_id)), Marker("end", ToStr(next_id)),
                            Marker("ref", ToStr(next_id))>>]

\* the paragraph after _add_word_comment placed the three markers
WithMarkers(p, next_id) ==
  [p EXCEPT !.els = <<Marker("start", ToStr(next_id))>> \o @
                    \o <<Marker("end", ToStr(next_id)), Marker("ref", ToStr(next_id))>>]

\* paragraph.runs: the w:r children (the commentReference run included)
IsRun(e) == e.kind \in {"run", "ref"}

\* _add_inline_comment(paragraph, note_text)
_add_inline_comment(p, note_text) ==
  [p EXCEPT !.els = [k \in 1..Len(@) |->
                       IF IsRun(@[k]) THEN [@[k] EXCEPT !.hl = TRUE] ELSE @[k]]
                    \o <<Run(" [Comment: " \o note_text \o "] ", "note")>>]

\* issues.index(x), 0-based
IndexOf(iss, x) == (CHOOSE k \in 1..Len(iss) : iss[k] = x /\ \A j \in 1..(k - 1) : iss[j] # x) - 1

RECURSIVE SortedSeq(_)
\* sorted(keys)
SortedSeq(S) ==
  IF S = {} THEN <<>>
  ELSE LET m == SetMin(S) IN <<m>> \o SortedSeq(S \ {m})


(* ------------------------------- state -------------------------------- *)
VARIABLES
  doc,         \* doc.paragraphs: the body paragraphs in order
  store,       \* the comment store: avail (it can be located or created), comments
  issues,      \* the issues argument of annotate_docx
  pc,          \* position in annotate_docx
  cur,         \* number of issues the resolution loop has handled
  groups,      \* paragraph_to_issues: p_idx -> positions of its issues
  unanchored,  \* unanchored: positions of its issues
  decision,    \* per handled issue: what each strategy returned and p_idx
  emb,         \* outcome of embed_texts in the last resolution step
  llm,         \* how _llm_anchor_map ended, and llm_map
  gcur,        \* number of groups the annotation loop has handled
  writes,      \* per handled group: where and what was written
  nPre,        \* number of comments the store held when the file was loaded
  saves,       \* save attempts so far: filename kind and outcome
  corpus,      \* faiss_index_dir: which files exist, and the content of meta.json
  retr,        \* the FaissRetriever: how __init__ ended, and top_k
  hits,        \* the result list of the last FaissRetriever.search
  nsearch,     \* number of direct calls of FaissRetriever.search so far
  htext,       \* the text argument of _heuristic_issues
  hstep,       \* number of checks _heuristic_issues has made (-1: it raised)
  used_refs,   \* used_refs of _heuristic_issues
  cited,       \* per issue of _heuristic_issues: its text and the ref_ids of its evidence
  batch,       \* node_annotate: file_paths, position, annotated, the output files written
  caller,      \* an operation that performs retrieval: which one, and how it ended
  fn,          \* a function applied to an argument: name, argument, result
  ck           \* _chunk_text: words, max_tokens, overlap, start, chunks

\* the variables of the retrieval side (FaissRetriever, _heuristic_issues)
retrVars == <<corpus, retr, hits, nsearch, htext, hstep, used_refs, cited>>

\* the variables of the workflow around them (node_annotate, the callers of
\* the retriever, single functions, _chunk_text)
flowVars == <<batch, caller, fn, ck>>

vars == <<doc, store, issues, pc, cur, groups, unanchored, decision, emb, llm,
          gcur, writes, nPre, saves, corpus, retr, hits, nsearch, htext, hstep,
          used_refs, cited, batch, caller, fn, ck>>

NoBatch == [paths |-> <<>>, i |-> 0, annotated |-> <<>>, outputs |-> <<>>, status |-> "none"]
NoCaller == [op |-> "none", path |-> "", status |-> "none", failures |-> 0, result |-> ""]
NoFn == [name |-> "", arg |-> <<>>, out |-> <<>>]
NoChunker == [words |-> <<>>, max_tokens |-> 0, overlap |-> 0, start |-> 0,
              chunks |-> <<>>, odd |-> FALSE, status |-> "none"]

\* the workflow around annotate_docx and the retriever takes no part
FlowIdle ==
  /\ batch = NoBatch
  /\ caller = NoCaller
  /\ fn = NoFn
  /\ ck = NoChunker

\* no retriever has been constructed
NoRetriever == [state |-> "none", error |-> "", top_k |-> 0]

\* the retrieval side while annotate_docx runs: it takes no part in it
RetrIdle ==
  /\ corpus = [index |-> FALSE, chunks |-> FALSE, metaFile |-> FALSE, meta |-> <<>>]
  /\ retr = NoRetriever
  /\ hits = <<>>
  /\ nsearch = 0
  /\ htext = ""
  /\ hstep = 0
  /\ used_refs = {}
  /\ cited = <<>>

\* comment stores a loaded file may hold (ids are w:id attribute values)
Stores ==
  { [avail |-> FALSE, comments |-> <<>>],
    [avail |-> TRUE, comments |-> <<>>],
    [avail |-> TRUE, comments |-> <<Comment(None, "old"), Comment(Some("4"), "old"),
                                    Comment(Some("1"), "old")>>],
    [avail |-> TRUE, comments |-> <<Comment(Some("0"), "old"), Comment(Some("x"), "old")>>] }

\* similarity scores in thousandths: just below the threshold, the threshold,
\* above it
ScoreSet == {199, 200, 300}

NoEmb == [called |-> FALSE, raised |-> FALSE, scores |-> <<>>]
EmbOutcomes(n) ==
  {[called |-> TRUE, raised |-> TRUE, scores |-> <<>>]}
  \cup {[called |-> TRUE, raised |-> FALSE, scores |-> sc] : sc \in [1..n -> ScoreSet]}

NoCall == [called |-> FALSE, raised |-> FALSE, data |-> <<>>]
\* values the LLM may give for issue_idx and paragraph_idx
IssueIdxValues(k) == {JInt(i) : i \in 0..(k - 1)} \cup {JOther}
ParaIdxValues(n) == {JInt(i) : i \in (-1)..n} \cup {JOther}
Items(k, n) ==
  {Item(ii, pi) : ii \in IssueIdxValues(k), pi \in ParaIdxValues(n)} \cup {NotADict}
CallOutcomes(k, n) ==
  {[called |-> TRUE, raised |-> TRUE, data |-> <<>>]}
  \cup {[called |-> TRUE, raised |-> FALSE, data |-> d] : d \in SeqUpTo(Items(k, n), MaxReply)}

\* the state when annotate_docx has loaded the file, for a file among docs
\* (given by their paragraph texts) with a comment store among stores, and an
\* issue list among lists
InitWith(docs, stores, lists) ==
  /\ \E texts \in docs : doc = LoadDoc(texts)
  /\ store \in stores
  /\ issues \in lists
  /\ pc = "resolve"
  /\ cur = 0
  /\ groups = EmptyMap
  /\ unanchored = <<>>
  /\ decision = <<>>
  /\ emb = NoEmb
  /\ llm = [kind |-> "pending", map |-> EmptyMap]
  /\ gcur = 0
  /\ writes = <<>>
  /\ nPre = Len(store.comments)
  /\ saves = <<>>
  /\ RetrIdle
  /\ FlowIdle

Init == InitWith(SeqUpTo(ParaTexts, MaxParas), Stores, SeqUpTo(IssuePool, MaxIssues))

(* ------------------------- annotate_docx, step 1 ---------------------- *)
\* FirstAnchors with the two strategies swapped: keyword first, substring only
\* when keyword returned None
FirstAnchors_KeywordFirst(texts, issue) ==
  LET kw == _keyword_anchor(texts, issue)
  IN  [sub |-> IF kw = None THEN _find_paragraph_index(texts, Candidates(issue)) ELSE None,
       kw |-> kw]

\* strategies 1 and 2 as annotate_docx calls them: the keyword strategy is
\* called only when the substring strategy returned None (a strategy that is
\* not called has result None)
FirstAnchors(texts, issue) ==
  LET sub == _find_paragraph_index(texts, Candidates(issue))
  IN  [sub |-> sub,
       kw |-> IF sub = None THEN _keyword_anchor(texts, issue) ELSE None]

\* _semantic_anchor is called
SemCalled(a) == a.sub = None /\ a.kw = None

\* embed_texts is reached in that call
EmbReached(a, texts, issue) == SemCalled(a) /\ issue.issue # "" /\ texts # <<>>

\* the decision for one issue, given the results a of strategies 1 and 2:
\* what each strategy returned, which strategies were called, and p_idx
Cascade(a, texts, issue, e) ==
  LET sem == IF SemCalled(a) THEN _semantic_anchor(texts, issue, e) ELSE None
  IN  [sub |-> a.sub, kw |-> a.kw, sem |-> sem,
       consulted |-> <<"substring">>
                     \o (IF a.sub = None THEN <<"keyword">> ELSE <<>>)
                     \o (IF SemCalled(a) THEN <<"semantic">> ELSE <<>>),
       p_idx |-> IF a.sub # None THEN a.sub ELSE IF a.kw # None THEN a.kw ELSE sem]

\* AddToGroup that replaces the group's list instead of appending to it
AddToGroup_Overwrite(g, p_idx, pos) ==
  [x \in (DOMAIN g) \cup {p_idx} |-> IF x = p_idx THEN <<pos>> ELSE g[x]]

\* paragraph_to_issues.setdefault(p_idx, []).append(issue)
AddToGroup(g, p_idx, pos) ==
  IF p_idx \in DOMAIN g THEN [g EXCEPT ![p_idx] = Append(@, pos)]
  ELSE (p_idx :> <<pos>>) @@ g

\* one iteration of "for issue in issues"
Resolve ==
  /\ pc = "resolve"
  /\ cur < Len(issues)
  /\ LET issue == issues[cur + 1]
         texts == DocTexts(doc)
         a == FirstAnchors(texts, issue)
     IN  \E e \in (IF EmbReached(a, texts, issue) THEN EmbOutcomes(Len(texts)) ELSE {NoEmb}) :
           LET d == Cascade(a, texts, issue, e)
           IN  /\ emb' = e
               /\ decision' = Append(decision, d)
               /\ IF d.p_idx # None
                    THEN /\ groups' = AddToGroup(groups, Val(d.p_idx), cur)
                         /\ unanchored' = unanchored
                    ELSE /\ unanchored' = Append(unanchored, cur)
                         /\ groups' = groups
  /\ cur' = cur + 1
  /\ UNCHANGED <<doc, store, issues, pc, llm, gcur, writes, nPre, saves>>
  /\ UNCHANGED retrVars
  /\ UNCHANGED flowVars

\* how _llm_anchor_map ended: without a client, without the call, with the
\* call raising, with item.get raising on an element that is no object, or
\* with the loop over data completed
LlmKind(client, call) ==
  IF ~client THEN "noclient"
  ELSE IF ~call.called THEN "notcalled"
  ELSE IF call.raised THEN "raise"
  ELSE IF \E k \in 1..Len(call.data) : ~call.data[k].dict THEN "malformed"
  ELSE "ok"

\* llm_map = _llm_anchor_map(doc, issues)
LlmAnchor ==
  /\ pc = "resolve"
  /\ cur = Len(issues)
  /\ \E client \in BOOLEAN :
       \E call \in (IF LlmCalled(DocTexts(doc), issues, client)
                      THEN CallOutcomes(Len(issues), Len(doc)) ELSE {NoCall}) :
         llm' = [kind |-> LlmKind(client, call),
                 map |-> _llm_anchor_map(DocTexts(doc), issues, client, call)]
  /\ pc' = "annotate"
  /\ emb' = NoEmb
  /\ UNCHANGED <<doc, store, issues, cur, groups, unanchored, decision, gcur,
                 writes, nPre, saves>>
  /\ UNCHANGED retrVars
  /\ UNCHANGED flowVars


(* ------------------------- annotate_docx, step 2 ---------------------- *)
\* note_text of a group: the numbered parts joined with "; "
NoteText(iss, iss_list) ==
  JoinParts([k \in 1..Len(iss_list) |-> NotePart(k, iss[iss_list[k] + 1])], "; ")

\* TargetIdx whose default is paragraph 0 instead of p_idx:
\* llm_map.get(issues.index(iss_list[0]), 0)
TargetIdx_DefaultZero(map, iss, iss_list, p_idx) ==
  LET key == IndexOf(iss, iss[iss_list[1] + 1])
  IN  IF key \in DOMAIN map THEN map[key] ELSE 0

\* target_idx = llm_map.get(issues.index(iss_list[0]), p_idx)
TargetIdx(map, iss, iss_list, p_idx) ==
  LET key == IndexOf(iss, iss[iss_list[1] + 1])
  IN  IF key \in DOMAIN map THEN map[key] ELSE p_idx

\* doc.paragraphs[target_idx] raises IndexError
IndexError(n, target_idx) == target_idx >= n \/ target_idx < -n

\* the 0-based position doc.paragraphs[target_idx] denotes (negative indices
\* count from the end)
ListPos(n, target_idx) == IF target_idx < 0 THEN target_idx + n ELSE target_idx

\* one iteration of "for p_idx, iss_list in sorted(paragraph_to_issues.items())"
Annotate ==
  /\ pc = "annotate"
  /\ gcur < Cardinality(DOMAIN groups)
  /\ LET p_idx == SortedSeq(DOMAIN groups)[gcur + 1]
         iss_list == groups[p_idx]
         note_text == NoteText(issues, iss_list)
         target_idx == TargetIdx(llm.map, issues, iss_list, p_idx)
         n == Len(doc)
     IN  IF IndexError(n, target_idx)
           THEN /\ pc' = "raised"
                /\ UNCHANGED <<doc, store, gcur, writes>>
           ELSE LET t == ListPos(n, target_idx)
                    next_id == NextId(store.comments)
                    commented == IF store.avail THEN WithMarkers(doc[t + 1], next_id)
                                 ELSE doc[t + 1]
                IN  /\ store' = IF store.avail
                                  THEN [store EXCEPT !.comments =
                                          Append(@, Comment(Some(ToStr(next_id)), note_text))]
                                  ELSE store
                    /\ doc' = [doc EXCEPT ![t + 1] = _add_inline_comment(commented, note_text)]
                    /\ writes' = Append(writes,
                                   [p_idx |-> p_idx, target_idx |-> target_idx, para |-> t,
                                    n |-> n, commented |-> store.avail,
                                    id |-> IF store.avail THEN Some(next_id) ELSE None,
                                    storeLen |-> Len(store.comments),
                                    body |-> note_text])
                    /\ gcur' = gcur + 1
                    /\ pc' = pc
  /\ UNCHANGED <<issues, cur, groups, unanchored, decision, emb, llm, nPre, saves>>
  /\ UNCHANGED retrVars
  /\ UNCHANGED flowVars

\* a line of the unanchored section
UnanchoredLine(it) ==
  LET cite == Cite(it)
  IN  "- " \o (IF it.severity # "" THEN "[" \o it.severity \o "] " ELSE "")
      \o it.issue
      \o (IF cite # "" THEN " (Per " \o cite \o ")" ELSE "")
      \o (IF it.suggestion # "" THEN " Suggestion: " \o it.suggestion ELSE "")

\* UnanchoredSection without the test "if unanchored:"
UnanchoredSection_Always(iss, un) ==
  <<Para("Normal", <<>>), Para("Heading 2", <<Run("Unanchored Comments", "plain")>>)>>
  \o [k \in 1..Len(un) |-> Para("Normal", <<Run(UnanchoredLine(iss[un[k] + 1]), "plain")>>)]

\* the paragraphs "if unanchored:" appends
UnanchoredSection(iss, un) ==
  IF un = <<>> THEN <<>>
  ELSE <<Para("Normal", <<>>), Para("Heading 2", <<Run("Unanchored Comments", "plain")>>)>>
       \o [k \in 1..Len(un) |-> Para("Normal", <<Run(UnanchoredLine(iss[un[k] + 1]), "plain")>>)]

\* WriteUnanchored that inserts the section before the paragraphs of the
\* document instead of appending it
WriteUnanchored_Prepend ==
  /\ pc = "annotate"
  /\ gcur = Cardinality(DOMAIN groups)
  /\ doc' = UnanchoredSection(issues, unanchored) \o doc
  /\ pc' = "appendix"
  /\ UNCHANGED <<store, issues, cur, groups, unanchored, decision, emb, llm, gcur,
                 writes, nPre, saves>>
  /\ UNCHANGED retrVars
  /\ UNCHANGED flowVars

\* the unanchored section, after the loop over the groups has ended
WriteUnanchored ==
  /\ pc = "annotate"
  /\ gcur = Cardinality(DOMAIN groups)
  /\ doc' = doc \o UnanchoredSection(issues, unanchored)
  /\ pc' = "appendix"
  /\ UNCHANGED <<store, issues, cur, groups, unanchored, decision, emb, llm, gcur,
                 writes, nPre, saves>>
  /\ UNCHANGED retrVars
  /\ UNCHANGED flowVars

\* the paragraphs the appendix holds for issue number idx
AppendixEntry(idx, issue) ==
  <<Para("Normal",
         <<Run(ToStr(idx) \o ". [" \o issue.severity \o "] ", "bold"),
           Run(issue.issue \o " ", "plain")>>
         \o (LET cite == Cite(issue)
             IN  IF cite # "" THEN <<Run("(Per " \o cite \o ")", "plain")>> ELSE <<>>))>>
  \o (IF issue.suggestion # ""
        THEN <<Para("Normal", <<Run("Suggestion: " \o issue.suggestion, "plain")>>)>>
        ELSE <<>>)
  \o [k \in 1..Len(issue.evidence) |->
        LET ev == issue.evidence[k]
            src == IF ev.source_url # "" THEN " (source: " \o ev.source_url \o ")" ELSE ""
        IN  Para("Normal", <<Run("Citation " \o ev.ref_id \o ": " \o ev.snippet \o src, "plain")>>)]

RECURSIVE AppendixEntries_FromZero(_, _)
\* AppendixEntries numbering from 0: enumerate(issues) without start=1
AppendixEntries_FromZero(iss, idx) ==
  IF idx > Len(iss) THEN <<>>
  ELSE AppendixEntry(idx - 1, iss[idx]) \o AppendixEntries_FromZero(iss, idx + 1)

RECURSIVE AppendixEntries(_, _)
\* "for idx, issue in enumerate(issues, start=1)": the entries from idx on
AppendixEntries(iss, idx) ==
  IF idx > Len(iss) THEN <<>>
  ELSE AppendixEntry(idx, iss[idx]) \o AppendixEntries(iss, idx + 1)

\* "Append consolidated Issues section"
AppendixSection(iss) ==
  <<Para("Normal", <<[kind |-> "break", text |-> "", id |-> "", fmt |-> "plain", hl |-> FALSE]>>),
    Para("Heading 1", <<Run("Issues Found (Automated Review)", "plain")>>)>>
  \o (IF iss = <<>> THEN <<Para("Normal", <<Run("No issues were detected.", "plain")>>)>>
      ELSE AppendixEntries(iss, 1))

WriteAppendix ==
  /\ pc = "appendix"
  /\ doc' = doc \o AppendixSection(issues)
  /\ pc' = "save"
  /\ UNCHANGED <<store, issues, cur, groups, unanchored, decision, emb, llm, gcur,
                 writes, nPre, saves>>
  /\ UNCHANGED retrVars
  /\ UNCHANGED flowVars

\* Save with "except Exception" in place of "except PermissionError": every
\* failure of the first attempt leads to the second
Save_RetryAny ==
  /\ pc = "save"
  /\ \E r \in {"ok", "PermissionError", "OtherError"} :
       /\ saves' = Append(saves, [name |-> "reviewed", result |-> r])
       /\ pc' = IF r = "ok" THEN "done" ELSE "retry"
  /\ UNCHANGED <<doc, store, issues, cur, groups, unanchored, decision, emb, llm,
                 gcur, writes, nPre>>
  /\ UNCHANGED retrVars
  /\ UNCHANGED flowVars

\* doc.save(out_path) under the fixed-suffix name
Save ==
  /\ pc = "save"
  /\ \E r \in {"ok", "PermissionError", "OtherError"} :
       /\ saves' = Append(saves, [name |-> "reviewed", result |-> r])
       /\ pc' = CASE r = "ok" -> "done"
                  [] r = "PermissionError" -> "retry"
                  [] OTHER -> "raised"
  /\ UNCHANGED <<doc, store, issues, cur, groups, unanchored, decision, emb, llm,
                 gcur, writes, nPre>>
  /\ UNCHANGED retrVars
  /\ UNCHANGED flowVars

\* doc.save(out_path) under the unique name, in the PermissionError handler
SaveRetry ==
  /\ pc = "retry"
  /\ \E r \in {"ok", "Error"} :
       /\ saves' = Append(saves, [name |-> "reviewed_unique", result |-> r])
       /\ pc' = IF r = "ok" THEN "done" ELSE "raised"
  /\ UNCHANGED <<doc, store, issues, cur, groups, unanchored, decision, emb, llm,
                 gcur, writes, nPre>>
  /\ UNCHANGED retrVars
  /\ UNCHANGED flowVars

Next ==
  \/ Resolve
  \/ LlmAnchor
  \/ Annotate
  \/ WriteUnanchored
  \/ WriteAppendix
  \/ Save
  \/ SaveRetry

Spec == Init /\ [][Next]_vars


\* the resolution loop alone ("for issue in issues"), which never reads the
\* comment store
InitResolve == Init /\ ~store.avail

NextResolve == Resolve

SpecResolve == InitResolve /\ [][NextResolve]_vars

\* annotate_docx on one two-paragraph document without comment store, for
\* issue lists that also hold an issue without severity
NoteDocs ==
  {<<"This Agreement shall be governed by UAE Federal Courts.",
     "Registered office address: Abu Dhabi.">>}

NotePool == {IssueJur, IssueAddr, IssuePlain}

InitNote == InitWith(NoteDocs, {st \in Stores : ~st.avail}, SeqUpTo(NotePool, MaxIssues))

SpecNote == InitNote /\ [][Next]_vars

(* --------------------------- the retrieval side ----------------------- *)
\* the searches one verify_checklist call makes (its list of three queries)
ChecklistQueries == 3

RECURSIVE LastSlash(_, _)
\* the position of the last "/" among the first k characters of p (0: none)
LastSlash(p, k) ==
  IF k = 0 THEN 0 ELSE IF CharAt(p, k) = "/" THEN k ELSE LastSlash(p, k - 1)

\* os.path.basename(p)
Basename(p) == SubSeq(p, LastSlash(p, Len(p)) + 1, Len(p))

\* the files load_reference_files finds under references_dir (os.walk descends
\* into sub-directories), each with the number of parts _chunk_text gives
RefFiles ==
  << [path |-> "references/regs.txt", parts |-> 2],
     [path |-> "references/guide.txt", parts |-> 1],
     [path |-> "references/old/regs.txt", parts |-> 1] >>

\* the files of RefFiles whose position is in S, in order
PickFiles(S) == SelectSeq([k \in 1..Len(RefFiles) |-> [f |-> RefFiles[k], at |-> k]],
                          LAMBDA x : x.at \in S)

RECURSIVE MetaOf(_)
\* meta as ingest_references builds it: one entry per part, file by file
MetaOf(items) ==
  IF items = <<>> THEN <<>>
  ELSE [i \in 1..Head(items).f.parts |->
          [source_path |-> Head(items).f.path, chunk_index |-> i - 1]]
       \o MetaOf(Tail(items))

\* what faiss_index_dir can hold: a corpus ingest_references wrote for some
\* of the files, or a directory in which some of the three files are absent
Corpora ==
  {[index |-> TRUE, chunks |-> TRUE, metaFile |-> TRUE, meta |-> MetaOf(PickFiles(S))] :
     S \in (SUBSET (1..Len(RefFiles))) \ {{}}}
  \cup {[index |-> p[1], chunks |-> p[2], metaFile |-> p[3],
          meta |-> MetaOf(PickFiles({1}))] :
          p \in {q \in BOOLEAN \X BOOLEAN \X BOOLEAN : ~(q[1] /\ q[2] /\ q[3])}}

\* the ref_id FaissRetriever.search gives the chunk with this meta entry
RefId(m) == Basename(m.source_path) \o "#chunk-" \o ToStr(m.chunk_index)

\* FaissRetriever.__init__(top_k) on the directory c
FaissRetriever_init(c, top_k) ==
  IF ~(c.index /\ c.chunks)
    THEN [state |-> "failed", error |-> "RuntimeError", top_k |-> 0]
  ELSE IF ~c.metaFile
    THEN [state |-> "failed", error |-> "FileNotFoundError", top_k |-> 0]
  ELSE [state |-> "ready", error |-> "", top_k |-> top_k]

\* top_k of the retrievers the callers construct (check_compliance: 4,
\* verify_checklist: 6)
TopKs == {4, 6}

\* what self.index.search(q_vec, top_k) can give for an index of n vectors:
\* min(n, top_k) distinct positions in any order, then -1 up to top_k; or
\* embed_texts raises
SearchOutcomes(n, top_k) ==
  LET m == Min(n, top_k)
  IN  {[raised |-> TRUE, idxs |-> <<>>]}
      \cup {[raised |-> FALSE, idxs |-> q \o [i \in 1..(top_k - m) |-> -1]] :
              q \in {f \in [1..m -> 0..(n - 1)] :
                       \A a, b \in 1..m : a # b => f[a] # f[b]}}

\* the results list of FaissRetriever.search for the positions idxs
Results(meta, idxs) ==
  LET kept == SelectSeq(idxs, LAMBDA i : i # -1)
  IN  [j \in 1..Len(kept) |->
         [ref_id |-> RefId(meta[kept[j] + 1]), idx |-> kept[j],
          source_path |-> meta[kept[j] + 1].source_path]]

RECURSIVE FirstUnused(_, _, _)
\* the loop of cite: the position of the first hit from k on whose ref_id is
\* not empty and not in used (0: there is none)
FirstUnused(hs, used, k) ==
  IF k > Len(hs) THEN 0
  ELSE IF hs[k].ref_id # "" /\ hs[k].ref_id \notin used THEN k
  ELSE FirstUnused(hs, used, k + 1)

\* HeurCite without "used_refs.add(ref_id)"
HeurCite_NoAdd(hs, used) ==
  LET k == FirstUnused(hs, used, 1)
  IN  IF k # 0 THEN [refs |-> <<hs[k].ref_id>>, used |-> used]
      ELSE IF hs # <<>> THEN [refs |-> <<hs[1].ref_id>>, used |-> used]
      ELSE [refs |-> <<>>, used |-> used]

\* cite(query) of _heuristic_issues once search returned hs: the ref_ids of
\* the evidence list it returns, and used_refs afterwards
HeurCite(hs, used) ==
  LET k == FirstUnused(hs, used, 1)
  IN  IF k # 0 THEN [refs |-> <<hs[k].ref_id>>, used |-> used \cup {hs[k].ref_id}]
      ELSE IF hs # <<>> THEN [refs |-> <<hs[1].ref_id>>, used |-> used]
      ELSE [refs |-> <<>>, used |-> used]

\* texts of documents check_compliance is called with
HeurTexts ==
  { "This Agreement shall be governed by UAE Federal Courts.",
    "ADGM courts have jurisdiction.",
    "Signed under ADGM Companies Regulations 2020." }

\* the condition of the k-th check of _heuristic_issues on the lowered text
HeurApplies(k, lower) ==
  CASE k = 1 -> \/ Contains(lower, "jurisdiction") \/ Contains(lower, "federal")
                \/ Contains(lower, "uae courts") \/ Contains(lower, "abu dhabi courts")
    [] k = 2 -> ~Contains(lower, "signature") /\ ~Contains(lower, "signed")
    [] OTHER -> ~Contains(lower, "adgm")

\* the issue text of the k-th check
HeurIssue(k) ==
  CASE k = 1 -> "Jurisdiction references non-ADGM courts."
    [] k = 2 -> "Missing explicit signatory section."
    [] OTHER -> "Document does not explicitly reference ADGM."

\* the annotation side while the retrieval side runs: it takes no part in it
AnnIdle ==
  /\ doc = <<>>
  /\ store = [avail |-> FALSE, comments |-> <<>>]
  /\ issues = <<>>
  /\ pc = "idle"
  /\ cur = 0
  /\ groups = EmptyMap
  /\ unanchored = <<>>
  /\ decision = <<>>
  /\ emb = NoEmb
  /\ llm = [kind |-> "pending", map |-> EmptyMap]
  /\ gcur = 0
  /\ writes = <<>>
  /\ nPre = 0
  /\ saves = <<>>

annVars == <<doc, store, issues, pc, cur, groups, unanchored, decision, emb, llm,
             gcur, writes, nPre, saves>>

InitRetrieval ==
  /\ AnnIdle
  /\ corpus \in Corpora
  /\ retr = NoRetriever
  /\ hits = <<>>
  /\ nsearch = 0
  /\ htext \in HeurTexts
  /\ hstep = 0
  /\ used_refs = {}
  /\ cited = <<>>
  /\ FlowIdle

\* FaissRetriever(top_k=...) as check_compliance and verify_checklist call it
Construct ==
  /\ retr.state = "none"
  /\ \E k \in TopKs : retr' = FaissRetriever_init(corpus, k)
  /\ UNCHANGED <<corpus, hits, nsearch, htext, hstep, used_refs, cited>>
  /\ UNCHANGED annVars
  /\ UNCHANGED flowVars

\* retriever.search(q) called by verify_checklist (-1: the call raised)
Search ==
  /\ retr.state = "ready"
  /\ retr.top_k = 6
  /\ nsearch >= 0
  /\ nsearch < ChecklistQueries
  /\ \E o \in SearchOutcomes(Len(corpus.meta), retr.top_k) :
       IF o.raised
         THEN nsearch' = -1 /\ hits' = hits
         ELSE nsearch' = nsearch + 1 /\ hits' = Results(corpus.meta, o.idxs)
  /\ UNCHANGED <<corpus, retr, htext, hstep, used_refs, cited>>
  /\ UNCHANGED annVars
  /\ UNCHANGED flowVars

\* the next of the three checks of _heuristic_issues, with its cite(...) call
HeurStep ==
  /\ retr.state = "ready"
  /\ retr.top_k = 4
  /\ hstep >= 0
  /\ hstep < 3
  /\ IF HeurApplies(hstep + 1, Lower(htext))
       THEN \E o \in SearchOutcomes(Len(corpus.meta), retr.top_k) :
              IF o.raised
                THEN hstep' = -1 /\ UNCHANGED <<hits, used_refs, cited>>
                ELSE LET hs == Results(corpus.meta, o.idxs)
                         c == HeurCite(hs, used_refs)
                     IN  /\ hits' = hs
                         /\ used_refs' = c.used
                         /\ cited' = Append(cited,
                                        [issue |-> HeurIssue(hstep + 1), refs |-> c.refs,
                                         hits |-> [j \in 1..Len(hs) |-> hs[j].ref_id]])
                         /\ hstep' = hstep + 1
       ELSE hstep' = hstep + 1 /\ UNCHANGED <<hits, used_refs, cited>>
  /\ UNCHANGED <<corpus, retr, nsearch, htext>>
  /\ UNCHANGED annVars
  /\ UNCHANGED flowVars

NextRetrieval ==
  \/ Construct
  \/ Search
  \/ HeurStep

SpecRetrieval == InitRetrieval /\ [][NextRetrieval]_vars

(* ----------------------------- node_annotate -------------------------- *)
\* the largest number of file_paths of one workflow run
MaxBatch == 3

\* input paths of a workflow run
PathPool ==
  { "uploads/a/contract.docx", "uploads/b/contract.docx", "uploads/a/articles.docx" }

\* settings.output_dir
OutputDir == "data/outputs"

RECURSIVE LastDot(_, _)
\* the position of the last "." among the first k characters of b (0: none)
LastDot(b, k) ==
  IF k = 0 THEN 0 ELSE IF CharAt(b, k) = "." THEN k ELSE LastDot(b, k - 1)

\* os.path.splitext(base): the extension starts at the last dot, unless only
\* dots precede it
SplitExt(b) ==
  LET k == LastDot(b, Len(b))
  IN  IF k = 0 \/ \A j \in 1..(k - 1) : CharAt(b, j) = "."
        THEN [name |-> b, ext |-> ""]
        ELSE [name |-> SubSeq(b, 1, k - 1), ext |-> SubSeq(b, k, Len(b))]

\* os.path.join(settings.output_dir, f"{name}_reviewed{ext}")
OutPath(original_path) ==
  LET ne == SplitExt(Basename(original_path))
  IN  OutputDir \o "/" \o ne.name \o "_reviewed" \o ne.ext

\* values of unique_suffix (a time stamp and six hexadecimal digits)
UniqueSuffixes == {"20250101-093000-a1b2c3", "20250101-093000-d4e5f6"}

\* os.path.join(settings.output_dir, f"{name}_reviewed_{unique_suffix}{ext}")
UniqueOutPath(original_path, unique_suffix) ==
  LET ne == SplitExt(Basename(original_path))
  IN  OutputDir \o "/" \o ne.name \o "_reviewed_" \o unique_suffix \o ne.ext

\* how one annotate_docx call of the batch can end: the file saved under the
\* fixed name, saved under the unique name after a PermissionError, or an
\* exception leaving annotate_docx (doc.paragraphs[target_idx], doc.save)
DocOutcomes(in_path) ==
  {[kind |-> "saved", out_path |-> OutPath(in_path)]}
  \cup {[kind |-> "saved_unique", out_path |-> UniqueOutPath(in_path, u)] : u \in UniqueSuffixes}
  \cup {[kind |-> "raised", out_path |-> ""]}

InitBatch ==
  /\ AnnIdle
  /\ RetrIdle
  /\ \E ps \in SeqUpTo(PathPool, MaxBatch) :
       batch = [paths |-> ps, i |-> 0, annotated |-> <<>>, outputs |-> <<>>, status |-> "run"]
  /\ caller = NoCaller
  /\ fn = NoFn
  /\ ck = NoChunker

\* one iteration of "for in_path in state["file_paths"]"; an exception of
\* annotate_docx leaves node_annotate, whose annotated dict is lost
AnnotateDoc ==
  /\ batch.status = "run"
  /\ batch.i < Len(batch.paths)
  /\ LET in_path == batch.paths[batch.i + 1]
         fname == Basename(in_path)
     IN  \E o \in DocOutcomes(in_path) :
           IF o.kind = "raised"
             THEN batch' = [batch EXCEPT !.status = "raised", !.annotated = <<>>,
                                         !.i = @ + 1]
             ELSE batch' = [batch EXCEPT
                              !.i = @ + 1,
                              !.annotated = (fname :> o.out_path) @@ @,
                              !.outputs = Append(@, [path |-> o.out_path, input |-> batch.i + 1])]
  /\ UNCHANGED <<caller, fn, ck>>
  /\ UNCHANGED annVars
  /\ UNCHANGED retrVars

\* state["annotated_paths"] = annotated; return state
AnnotateReturn ==
  /\ batch.status = "run"
  /\ batch.i = Len(batch.paths)
  /\ batch' = [batch EXCEPT !.status = "done"]
  /\ UNCHANGED <<caller, fn, ck>>
  /\ UNCHANGED annVars
  /\ UNCHANGED retrVars

NextBatch ==
  \/ AnnotateDoc
  \/ AnnotateReturn

SpecBatch == InitBatch /\ [][NextBatch]_vars

(* --------------------------- single functions ------------------------- *)
\* snippets of evidence given to _short_citation
CiteSnippets ==
  { "",
    "ADGM Companies Regulations 2020, Article 12 applies.",
    "A registered office must be in ADGM.",
    "adgm companies regulations 2020 art. 5A",
    "ADGM, Companies Regulations 2020 Article 3",
    "See ADGM Regulations2015: Art.7",
    "ADGM Regulations 2020 Article",
    "ADGM Regulations 202 Article 4",
    "ADGM Employment Regulations 2019 and ADGM Companies Regulations 2020 Article 9",
    "ADGM Regulations 2020 as amended from time to time by the Board, Article 2",
    "Under the\nADGM Courts Regulations 2015 (Article 16)",
    "Article 4 of the ADGM Regulations 2020" }

\* ref_ids of evidence ("" stands for an absent one)
CiteRefIds == {"", "regs.pdf#chunk-3", "guide.pdf#chunk-0", "old/regs.txt#chunk-1"}

\* the evidence objects _short_citation is applied to
CiteArgs == {[ref_id |-> r, snippet |-> sn, source_url |-> ""] : r \in CiteRefIds, sn \in CiteSnippets}

\* issue texts given to _keyword_anchor
KeywordIssueTexts ==
  { "Jurisdiction references non-ADGM courts.",
    "Signature block does not name the court.",
    "Document does not explicitly reference ADGM courts.",
    "Registered address is incomplete.",
    "Missing explicit signatory section.",
    "Address for notices is not stated; an ADGM address is required." }

\* the documents and issues _keyword_anchor is applied to
KeywordArgs ==
  {[texts |-> t,
    issue |-> [section |-> "", issue |-> x, severity |-> "Medium", evidence |-> <<>>,
               suggestion |-> ""]] :
     t \in SeqUpTo(ParaTexts, MaxParas), x \in KeywordIssueTexts}

InitFn ==
  /\ AnnIdle
  /\ RetrIdle
  /\ batch = NoBatch
  /\ caller = NoCaller
  /\ ck = NoChunker
  /\ \/ \E ev \in CiteArgs : fn = [name |-> "_short_citation", arg |-> ev, out |-> <<>>]
     \/ \E a \in KeywordArgs : fn = [name |-> "_keyword_anchor", arg |-> a, out |-> <<>>]

\* cite = _short_citation(ev)
ApplyShortCitation ==
  /\ fn.name = "_short_citation"
  /\ fn.out = <<>>
  /\ fn' = [fn EXCEPT !.out = <<_short_citation(fn.arg)>>]
  /\ UNCHANGED <<batch, caller, ck>>
  /\ UNCHANGED annVars
  /\ UNCHANGED retrVars

\* p_idx = _keyword_anchor(doc, issue)
ApplyKeywordAnchor ==
  /\ fn.name = "_keyword_anchor"
  /\ fn.out = <<>>
  /\ fn' = [fn EXCEPT !.out = <<_keyword_anchor(fn.arg.texts, fn.arg.issue)>>]
  /\ UNCHANGED <<batch, caller, ck>>
  /\ UNCHANGED annVars
  /\ UNCHANGED retrVars

NextFn ==
  \/ ApplyShortCitation
  \/ ApplyKeywordAnchor

SpecFn == InitFn /\ [][NextFn]_vars

(* ---------------------- the callers of the retriever ------------------ *)
\* the queries check_compliance searches for one segment (queries[:3])
ComplianceQueries == 3

\* the operations that construct a FaissRetriever
CallerOps == {"verify_checklist", "check_compliance"}

\* top_k of the retriever the operation constructs
CallerTopK(op) == IF op = "verify_checklist" THEN 6 ELSE 4

\* the searches the operation makes in its loop over queries
CallerQueries(op) == IF op = "verify_checklist" THEN ChecklistQueries ELSE ComplianceQueries

\* an operation has been called: path is "llm" when check_compliance has an
\* LLM client and "heuristic" when it has none; failures counts the
\* exceptions that loading or searching the index has raised in the call
InitCallers ==
  /\ AnnIdle
  /\ corpus \in Corpora
  /\ retr = NoRetriever
  /\ hits = <<>>
  /\ nsearch = 0
  /\ htext \in HeurTexts
  /\ hstep = 0
  /\ used_refs = {}
  /\ cited = <<>>
  /\ batch = NoBatch
  /\ fn = NoFn
  /\ ck = NoChunker
  /\ \E op \in CallerOps :
       \E path \in (IF op = "verify_checklist" THEN {"llm"} ELSE {"llm", "heuristic"}) :
         caller = [op |-> op, path |-> path, status |-> "running", failures |-> 0,
                   result |-> ""]

\* retriever = FaissRetriever(top_k=...): inside try in verify_checklist,
\* whose handler goes on with the configured checklist; outside any try in
\* check_compliance
CallerConstruct ==
  /\ caller.status = "running"
  /\ retr.state = "none"
  /\ LET r == FaissRetriever_init(corpus, CallerTopK(caller.op))
     IN  /\ retr' = r
         /\ caller' =
              IF r.state # "failed" THEN caller
              ELSE IF caller.op = "verify_checklist"
                THEN [caller EXCEPT !.failures = @ + 1, !.status = "returned",
                                    !.result = "configured checklist"]
              ELSE [caller EXCEPT !.failures = @ + 1, !.status = "raised"]
  /\ UNCHANGED <<corpus, hits, nsearch, htext, hstep, used_refs, cited>>
  /\ UNCHANGED <<batch, fn, ck>>
  /\ UNCHANGED annVars

\* retriever.search(q) in the loop over queries: verify_checklist's handler
\* goes on with the configured checklist, check_compliance passes over the
\* exception and goes on with the next query
CallerSearch ==
  /\ caller.status = "running"
  /\ caller.path = "llm"
  /\ retr.state = "ready"
  /\ nsearch < CallerQueries(caller.op)
  /\ \E o \in SearchOutcomes(Len(corpus.meta), retr.top_k) :
       IF o.raised
         THEN /\ hits' = hits
              /\ IF caller.op = "verify_checklist"
                   THEN /\ caller' = [caller EXCEPT !.failures = @ + 1, !.status = "returned",
                                                    !.result = "configured checklist"]
                        /\ nsearch' = nsearch
                   ELSE /\ caller' = [caller EXCEPT !.failures = @ + 1]
                        /\ nsearch' = nsearch + 1
         ELSE /\ hits' = Results(corpus.meta, o.idxs)
              /\ nsearch' = nsearch + 1
              /\ caller' = caller
  /\ UNCHANGED <<corpus, retr, htext, hstep, used_refs, cited>>
  /\ UNCHANGED <<batch, fn, ck>>
  /\ UNCHANGED annVars

\* the end of the loop over queries: the operation returns what it built
\* with the hits it has, or check_compliance, left without issues, goes on
\* with _heuristic_issues
CallerAfterQueries ==
  /\ caller.status = "running"
  /\ caller.path = "llm"
  /\ retr.state = "ready"
  /\ nsearch = CallerQueries(caller.op)
  /\ \/ caller' = [caller EXCEPT !.status = "returned",
                                  !.result = IF caller.op = "verify_checklist"
                                               THEN "generated or configured checklist"
                                               ELSE "issues of the LLM"]
     \/ /\ caller.op = "check_compliance"
        /\ caller' = [caller EXCEPT !.path = "heuristic"]
  /\ UNCHANGED retrVars
  /\ UNCHANGED <<batch, fn, ck>>
  /\ UNCHANGED annVars

\* the next check of _heuristic_issues called by check_compliance: an
\* exception of retriever.search leaves cite, _heuristic_issues and
\* check_compliance
CallerHeuristic ==
  /\ caller.status = "running"
  /\ caller.path = "heuristic"
  /\ retr.state = "ready"
  /\ hstep < 3
  /\ IF HeurApplies(hstep + 1, Lower(htext))
       THEN \E o \in SearchOutcomes(Len(corpus.meta), retr.top_k) :
              IF o.raised
                THEN /\ caller' = [caller EXCEPT !.failures = @ + 1, !.status = "raised"]
                     /\ UNCHANGED <<hits, used_refs, cited, hstep>>
                ELSE LET hs == Results(corpus.meta, o.idxs)
                         c == HeurCite(hs, used_refs)
                     IN  /\ hits' = hs
                         /\ used_refs' = c.used
                         /\ cited' = Append(cited,
                                        [issue |-> HeurIssue(hstep + 1), refs |-> c.refs,
                                         hits |-> [j \in 1..Len(hs) |-> hs[j].ref_id]])
                         /\ hstep' = hstep + 1
                         /\ caller' = caller
       ELSE hstep' = hstep + 1 /\ UNCHANGED <<hits, used_refs, cited, caller>>
  /\ UNCHANGED <<corpus, retr, nsearch, htext>>
  /\ UNCHANGED <<batch, fn, ck>>
  /\ UNCHANGED annVars

\* return issues, at the end of _heuristic_issues
CallerHeuristicReturn ==
  /\ caller.status = "running"
  /\ caller.path = "heuristic"
  /\ hstep = 3
  /\ caller' = [caller EXCEPT !.status = "returned", !.result = "heuristic issues"]
  /\ UNCHANGED retrVars
  /\ UNCHANGED <<batch, fn, ck>>
  /\ UNCHANGED annVars

NextCallers ==
  \/ CallerConstruct
  \/ CallerSearch
  \/ CallerAfterQueries
  \/ CallerHeuristic
  \/ CallerHeuristicReturn

SpecCallers == InitCallers /\ [][NextCallers]_vars

(* ------------------------------ _chunk_text --------------------------- *)
\* the largest max_tokens and overlap of the settings
MaxTokens == 3
MaxOverlap == 3
\* the number of chunks of a run of _chunk_text that are recorded (a run that
\* ends makes at most one chunk per word, so all of its chunks are)
MaxChunks == 6

\* texts of reference files
ChunkTexts ==
  { "", "  ", "ADGM", "Companies  Regulations", " the ADGM\ncourts ",
    "a registered office address" }

RECURSIVE SplitWords(_, _)
\* text.split(): the maximal runs of characters other than whitespace; word is
\* the word read so far
SplitWords(s, word) ==
  IF s = "" THEN (IF word = "" THEN <<>> ELSE <<word>>)
  ELSE IF IsSpace(Head(s))
    THEN (IF word = "" THEN <<>> ELSE <<word>>) \o SplitWords(Tail(s), "")
  ELSE SplitWords(Tail(s), word \o Head(s))

\* _tokenize_words(text)
_tokenize_words(text) == SplitWords(text, "")

\* " ".join(words[start:end]).strip()
ChunkOf(words, start, end) ==
  Strip(JoinParts(SubSeq(words, start + 1, end), " "))

\* _chunk_text(text, max_tokens, overlap) has been called and is at the head
\* of its loop
InitChunk ==
  /\ AnnIdle
  /\ RetrIdle
  /\ batch = NoBatch
  /\ caller = NoCaller
  /\ fn = NoFn
  /\ \E text \in ChunkTexts, m \in 1..MaxTokens, o \in 0..MaxOverlap :
       ck = [words |-> _tokenize_words(text), max_tokens |-> m, overlap |-> o,
             start |-> 0, chunks |-> <<>>, odd |-> FALSE, status |-> "run"]

\* one iteration of "while start < len(words)"; odd is the parity of the
\* number of iterations made, and of chunks the first MaxChunks are recorded
ChunkStep ==
  /\ ck.status = "run"
  /\ ck.start < Len(ck.words)
  /\ LET end == Min(ck.start + ck.max_tokens, Len(ck.words))
         chunk == ChunkOf(ck.words, ck.start, end)
         chunks == IF chunk # "" /\ Len(ck.chunks) < MaxChunks
                     THEN Append(ck.chunks, chunk) ELSE ck.chunks
     IN  ck' = IF end = Len(ck.words)
                 THEN [ck EXCEPT !.chunks = chunks, !.odd = ~@, !.status = "done"]
                 ELSE [ck EXCEPT !.chunks = chunks, !.odd = ~@,
                                 !.start = IF end - ck.overlap > 0 THEN end - ck.overlap ELSE 0]
  /\ UNCHANGED <<batch, caller, fn>>
  /\ UNCHANGED annVars
  /\ UNCHANGED retrVars

\* "if not words: return []", and the end of the loop by its condition
ChunkReturn ==
  /\ ck.status = "run"
  /\ ck.start >= Len(ck.words)
  /\ ck' = [ck EXCEPT !.status = "done"]
  /\ UNCHANGED <<batch, caller, fn>>
  /\ UNCHANGED annVars
  /\ UNCHANGED retrVars

NextChunk ==
  \/ ChunkStep
  \/ ChunkReturn

\* _chunk_text runs on: an enabled iteration is taken
SpecChunk == InitChunk /\ [][NextChunk]_vars /\ WF_vars(NextChunk)

(* ======================= properties of the model ====================== *)
\* the positions held by the anchored groups, as (p_idx, place) pairs
AnchoredSlots == {s \in (DOMAIN groups) \X (1..MaxIssues + 1) : s[2] <= Len(groups[s[1]])}

\* how often a position of the issue list occurs in the groups / in unanchored
InGroups(pos) == Cardinality({s \in AnchoredSlots : groups[s[1]][s[2]] = pos})
InUnanchored(pos) == Cardinality({k \in 1..Len(unanchored) : unanchored[k] = pos})

\* C1: after the resolution loop handled an issue, its position is in exactly
\* one of an anchored group or the unanchored list (never both, never
\* neither), positions not yet handled are in none, so that when the loop
\* ends |anchored| + |unanchored| = |issues|
C1_ExactlyOne ==
  /\ \A pos \in 0..(Len(issues) - 1) :
       InGroups(pos) + InUnanchored(pos) = (IF pos < cur THEN 1 ELSE 0)
  /\ Cardinality(AnchoredSlots) + Len(unanchored) = cur
  /\ \A p \in DOMAIN groups : groups[p] # <<>>

\* C1 witness: the loop has ended on a list of two equal issues, both in one
\* anchored group
C1_Witness ==
  /\ cur = Len(issues)
  /\ Len(issues) = 2
  /\ issues[1] = issues[2]
  /\ \E p \in DOMAIN groups : groups[p] = <<0, 1>>

\* the document's texts while no paragraph has been changed
ResolutionTexts == DocTexts(doc)

\* the issue the resolution loop handled last, and its decision
LastIssue == issues[cur]
LastDecision == decision[cur]

\* C4: for the issue handled last (every issue, in the state after its
\* iteration) the strategies are called in the order substring, keyword,
\* semantic; keyword only when substring returned none, semantic only when
\* both returned none; p_idx is the first result that is not none
C4_CascadeOrder ==
  (pc = "resolve" /\ cur >= 1) =>
    LET d == LastDecision
        s1 == _find_paragraph_index(ResolutionTexts, Candidates(LastIssue))
        s2 == _keyword_anchor(ResolutionTexts, LastIssue)
        s3 == _semantic_anchor(ResolutionTexts, LastIssue, emb)
    IN  /\ Len(decision) = cur
        /\ d.consulted = (IF s1 # None THEN <<"substring">>
                          ELSE IF s2 # None THEN <<"substring", "keyword">>
                          ELSE <<"substring", "keyword", "semantic">>)
        /\ d.p_idx = (IF s1 # None THEN s1 ELSE IF s2 # None THEN s2 ELSE s3)

\* C4 witness: an issue for which the keyword strategy was the first to return
\* a paragraph, so that the semantic strategy was not called
C4_Witness ==
  /\ cur >= 1
  /\ LastDecision.consulted = <<"substring", "keyword">>
  /\ LastDecision.sub = None
  /\ LastDecision.kw # None
  /\ LastDecision.p_idx = LastDecision.kw

\* the paragraph text holds, somewhere, the first 30 characters of the
\* candidate, compared character by character without regard to case
HoldsPrefix30(ptext, cand) ==
  LET m == Min(30, Len(cand))
  IN  \E off \in 0..(Len(ptext) - m) :
        \A k \in 1..m : LowerChar(CharAt(ptext, off + k)) = LowerChar(CharAt(cand, k))

\* the candidates of an issue that are not empty
NonEmptyCandidates(issue) ==
  {c \in ({issue.issue, issue.section}
          \cup (IF issue.evidence # <<>> THEN {issue.evidence[1].snippet} ELSE {})) : c # ""}

\* the 0-based indices of the paragraphs that hold the 30-character prefix of
\* some candidate
PrefixMatches(texts, issue) ==
  {k \in 0..(Len(texts) - 1) :
     \E c \in NonEmptyCandidates(issue) : HoldsPrefix30(texts[k + 1], c)}

\* C5: the substring strategy returns the lowest index of a paragraph that
\* holds, case-insensitively, the first 30 characters of a non-empty candidate,
\* and none when no paragraph does (stated of the issue handled last)
C5_SubstringLowest ==
  (pc = "resolve" /\ cur >= 1) =>
    LET ms == PrefixMatches(ResolutionTexts, LastIssue)
    IN  LastDecision.sub = (IF ms = {} THEN None ELSE Some(SetMin(ms)))

\* C5 witness: the first paragraph shares 29 leading characters with the
\* snippet and differs at the 30th, the second holds all 30 and differs at the
\* 31st; the strategy returned the second
C5_Witness ==
  /\ cur = 1
  /\ issues[1] = IssueAddr
  /\ ResolutionTexts = <<"ADGM Companies Regulations 2019 apply.",
                         "ADGM Companies Regulations 2021 apply.">>
  /\ decision[1].sub = Some(1)

\* the term occurs in the text, compared character by character without
\* regard to case
HoldsTerm(ptext, term) ==
  \E off \in 0..(Len(ptext) - Len(term)) :
    \A k \in 1..Len(term) : LowerChar(CharAt(ptext, off + k)) = CharAt(term, k)

\* the number of distinct keyword terms of the issue the paragraph holds
KwScore(ptext, issue) ==
  Cardinality({t \in {Keywords(issue)[k] : k \in 1..Len(Keywords(issue))} : HoldsTerm(ptext, t)})

\* the greatest element of a non-empty set of integers
SetMax(S) == CHOOSE x \in S : \A y \in S : y <= x

\* C6: when the keyword strategy applies to an issue it returns the paragraph
\* with the highest number of distinct keyword terms, the lowest index among
\* those tied for it, and none when the highest number is zero (stated of the
\* issue handled last)
C6_KeywordBest ==
  (pc = "resolve" /\ cur >= 1 /\ LastDecision.sub = None /\ Keywords(LastIssue) # <<>>) =>
    LET texts == ResolutionTexts
        score == [k \in 1..Len(texts) |-> KwScore(texts[k], LastIssue)]
        best == IF texts = <<>> THEN 0 ELSE SetMax({score[k] : k \in 1..Len(texts)})
    IN  LastDecision.kw =
          (IF best = 0 THEN None
           ELSE Some(SetMin({k \in 0..(Len(texts) - 1) : score[k + 1] = best})))

\* C6 witness: two paragraphs are tied for the highest positive score and the
\* keyword strategy returned the first of them
C6_Witness ==
  /\ cur = 1
  /\ Len(ResolutionTexts) = 2
  /\ KwScore(ResolutionTexts[1], issues[1]) = KwScore(ResolutionTexts[2], issues[1])
  /\ KwScore(ResolutionTexts[1], issues[1]) > 0
  /\ decision[1].consulted = <<"substring", "keyword">>
  /\ decision[1].kw = Some(0)

\* C7: when the semantic strategy has scored the paragraphs it returns the
\* paragraph with the highest score, the lowest index among those tied for it,
\* if that score is at least 0.2 (200 thousandths), and none if it is below
C7_SemanticThreshold ==
  (pc = "resolve" /\ emb.called /\ ~emb.raised) =>
    LET sc == emb.scores
        best == SetMax({sc[k] : k \in 1..Len(sc)})
    IN  LastDecision.sem =
          (IF best >= 200 THEN Some(SetMin({k \in 0..(Len(sc) - 1) : sc[k + 1] = best}))
           ELSE None)

\* C7 witness: the highest score is exactly 0.2, two paragraphs are tied for
\* it, and the first of them was returned
C7_Witness ==
  /\ emb.called
  /\ emb.scores = <<200, 200>>
  /\ LastDecision.sem = Some(0)

\* the comments the store held before the j-th group was annotated
StoreBefore(j) == SubSeq(store.comments, 1, writes[j].storeLen)

\* the w:id values of a sequence of comments (comments without one left out)
IdsOf(cs) == {Val(cs[k].id) : k \in {i \in 1..Len(cs) : cs[i].id # None}}

\* the groups for which a structured comment was written
Commented == {j \in 1..Len(writes) : writes[j].commented}

\* C2: every id allocated by _add_word_comment differs from every id the
\* store held at that moment and from every other allocated id, and is
\* greater than every (numeric) id the store held when the file was loaded
C2_IdsFresh ==
  \A j \in Commented :
    LET id == Val(writes[j].id)
    IN  /\ ToStr(id) \notin IdsOf(StoreBefore(j))
        /\ \A i \in Commented : i # j => writes[i].id # writes[j].id
        /\ \A c \in IdsOf(SubSeq(store.comments, 1, nPre)) :
             IsNumeral(c) => id > ParseInt(c)

\* the numeric ids among the w:id values of a sequence of comments
NumericIds(cs) == {ParseInt(c) : c \in {x \in IdsOf(cs) : IsNumeral(x)}}

\* C3 as stated: the allocated id is the greatest id of the store plus one,
\* and zero when the store holds no comment
C3_MaxPlusOneOrZero ==
  \A j \in Commented :
    LET before == StoreBefore(j)
        nums == NumericIds(before)
    IN  /\ before = <<>> => writes[j].id = Some(0)
        /\ nums # {} => writes[j].id = Some(SetMax(nums) + 1)

\* C3 amended: the allocated id is one plus the greatest of 0 and the ids of
\* the store when all of them are integers (so 1 for a store without
\* comments), and 0 when some id is not an integer
C3_IdRule ==
  \A j \in Commented :
    LET before == StoreBefore(j)
    IN  writes[j].id =
          (IF \E c \in IdsOf(before) : ~IsNumeral(c) THEN Some(0)
           ELSE Some(SetMax({0} \cup NumericIds(before)) + 1))

\* C3 witness: two groups were commented in a store that held no comment; the
\* first got id 1 and the second id 2
C3_Witness ==
  /\ Len(writes) = 2
  /\ Commented = {1, 2}
  /\ nPre = 0
  /\ writes[1].id = Some(1)
  /\ writes[2].id = Some(2)
  /\ Len(store.comments) = 2

\* the paragraph index the annotation loop takes for its next group
PendingTarget ==
  LET p_idx == SortedSeq(DOMAIN groups)[gcur + 1]
  IN  TargetIdx(llm.map, issues, groups[p_idx], p_idx)

\* C8: every paragraph index the annotation loop takes for a group, for the
\* groups already annotated and for the group it handles next, is at least 0
\* and below the number of paragraphs of the document
C8_IndexInRange ==
  /\ \A j \in 1..Len(writes) :
       0 <= writes[j].target_idx /\ writes[j].target_idx < writes[j].n
  /\ (pc = "annotate" /\ gcur < Cardinality(DOMAIN groups)) =>
       (0 <= PendingTarget /\ PendingTarget < Len(doc))

\* the batch-refinement pass failed: no client, the call raised, or the reply
\* holds an element that is no object
LlmFailed == llm.kind \in {"noclient", "raise", "malformed"}

\* C9: when embed_texts raises, the semantic strategy returns none and the
\* issue goes to the unanchored list; when the batch-refinement pass fails,
\* the mapping is empty, every group is annotated at its own paragraph p_idx,
\* and annotate_docx raises only from saving the file
C9_FailuresAbsorbed ==
  /\ (emb.called /\ emb.raised) =>
       /\ pc = "resolve"
       /\ LastDecision.sem = None
       /\ LastDecision.p_idx = None
       /\ unanchored # <<>>
       /\ unanchored[Len(unanchored)] = cur - 1
  /\ LlmFailed =>
       /\ llm.map = EmptyMap
       /\ \A j \in 1..Len(writes) :
            /\ writes[j].target_idx = writes[j].p_idx
            /\ writes[j].para = writes[j].p_idx
            /\ writes[j].body = NoteText(issues, groups[writes[j].p_idx])
       /\ pc = "raised" => saves # <<>>
       /\ pc \in {"appendix", "save", "retry", "done", "raised"} =>
            Len(writes) = Cardinality(DOMAIN groups)

\* C9 witness: the reply held an element that is no object, and the annotation
\* loop has ended with two groups annotated, the second at paragraph 1
C9_Witness ==
  /\ llm.kind = "malformed"
  /\ pc = "done"
  /\ Len(writes) = 2
  /\ writes[2].para = 1

\* the number of elements of a paragraph that satisfy a test on kind and fmt
CountEls(p, kind, fmt) ==
  Cardinality({k \in 1..Len(p.els) : p.els[k].kind = kind /\ p.els[k].fmt = fmt})

\* C10: no paragraph carries more than one commentRangeStart or more than one
\* inline note; and every annotated group left, at the paragraph it was written
\* to, one inline note whose body numbers the group's issues in input order
\* (and one structured comment if the comment store is available)
C10_OnePerParagraph ==
  /\ \A k \in 1..Len(doc) :
       /\ CountEls(doc[k], "start", "plain") <= 1
       /\ CountEls(doc[k], "run", "note") <= 1
  /\ \A j \in 1..Len(writes) :
       LET w == writes[j]
           g == groups[w.p_idx]
       IN  /\ \A a, b \in 1..Len(g) : a < b => g[a] < g[b]
           /\ \E k \in 1..Len(doc[w.para + 1].els) :
                LET e == doc[w.para + 1].els[k]
                IN  /\ e.kind = "run"
                    /\ e.fmt = "note"
                    /\ e.text = " [Comment: " \o w.body \o "] "
           /\ w.commented => CountEls(doc[w.para + 1], "start", "plain") >= 1

\* the position in doc of the heading of the consolidated appendix
AppendixHeading == CHOOSE h \in 1..Len(doc) : doc[h].style = "Heading 1"

\* the paragraphs of the consolidated appendix below its heading
AppendixBody == SubSeq(doc, AppendixHeading + 1, Len(doc))

\* the positions in the appendix body of the numbered entries: the paragraphs
\* that open with a bold run
EntryHeads ==
  {k \in 1..Len(AppendixBody) :
     AppendixBody[k].els # <<>> /\ AppendixBody[k].els[1].fmt = "bold"}

\* the texts of the paragraphs between the k-th entry head and the next one
\* (or the end) that open with "Citation "
CitationLines(heads, k) ==
  LET from == heads[k] + 1
      to == IF k < Len(heads) THEN heads[k + 1] - 1 ELSE Len(AppendixBody)
      lines == [i \in 1..(to - from + 1) |-> ParaText(AppendixBody[from + i - 1])]
  IN  SelectSeq(lines, LAMBDA t : Len(t) >= 9 /\ SubSeq(t, 1, 9) = "Citation ")

\* annotate_docx has written the appendix
AppendixWritten ==
  pc \in {"save", "retry", "done"} \/ (pc = "raised" /\ saves # <<>>)

\* C11: once the appendix is written it holds exactly one numbered entry per
\* input issue, the k-th entry opening with "k. [severity] " and the text of
\* the k-th issue, anchored or not, and followed by one citation line per
\* evidence item of that issue in evidence order; for an empty issue list it
\* holds no entry
C11_AppendixEntries ==
  AppendixWritten =>
    LET heads == SortedSeq(EntryHeads)
    IN  /\ Len(heads) = Len(issues)
        /\ \A k \in 1..Len(heads) :
             LET e == AppendixBody[heads[k]].els
                 it == issues[k]
                 cl == CitationLines(heads, k)
             IN  /\ e[1].text = ToStr(k) \o ". [" \o it.severity \o "] "
                 /\ Len(e) >= 2
                 /\ e[2].text = it.issue \o " "
                 /\ Len(cl) = Len(it.evidence)
                 /\ \A i \in 1..Len(cl) :
                      LET pre == "Citation " \o it.evidence[i].ref_id \o ": "
                                 \o it.evidence[i].snippet
                      IN  /\ Len(cl[i]) >= Len(pre)
                          /\ SubSeq(cl[i], 1, Len(pre)) = pre

\* C11 witness: the appendix is written for two issues, the first unanchored
\* and without evidence, the second anchored and with two evidence items
C11_Witness ==
  /\ AppendixWritten
  /\ Len(issues) = 2
  /\ unanchored = <<0>>
  /\ issues[1].evidence = <<>>
  /\ Len(issues[2].evidence) = 2
  /\ Len(SortedSeq(EntryHeads)) = 2
  /\ Len(CitationLines(SortedSeq(EntryHeads), 2)) = 2

\* annotate_docx is past "if unanchored:"
UnanchoredWritten == pc = "appendix" \/ AppendixWritten

\* the positions in doc of the headings of the unanchored section
UnanchoredHeadings ==
  {h \in 1..Len(doc) :
     doc[h].style = "Heading 2" /\ ParaText(doc[h]) = "Unanchored Comments"}

\* the texts of the paragraphs below the heading at h, up to the end of the
\* document or to the page break that opens the appendix
UnanchoredLines(h) ==
  LET to == IF pc = "appendix" THEN Len(doc) ELSE AppendixHeading - 2
  IN  [i \in 1..(to - h) |-> ParaText(doc[h + i])]

\* the line opens with "- [severity] " and the text of the issue
IsLineOf(line, it) ==
  LET pre == "- [" \o it.severity \o "] " \o it.issue
  IN  Len(line) >= Len(pre) /\ SubSeq(line, 1, Len(pre)) = pre

\* C12: the heading of the unanchored section is in the document if and only
\* if some issue is unanchored; below it there is exactly one line per
\* unanchored issue, in the order of the issue list, and the positions listed
\* are those in no anchored group
C12_UnanchoredSection ==
  UnanchoredWritten =>
    /\ (UnanchoredHeadings # {}) <=> (unanchored # <<>>)
    /\ Cardinality(UnanchoredHeadings) <= 1
    /\ \A h \in UnanchoredHeadings :
         LET lines == UnanchoredLines(h)
         IN  /\ Len(lines) = Len(unanchored)
             /\ \A k \in 1..Len(lines) : IsLineOf(lines[k], issues[unanchored[k] + 1])
    /\ \A a, b \in 1..Len(unanchored) : a < b => unanchored[a] < unanchored[b]
    /\ \A k \in 1..Len(unanchored) : InGroups(unanchored[k]) = 0

\* C12 witness: of two issues the first is anchored and the second is not;
\* the section holds the second issue's line only
C12_Witness ==
  /\ pc = "done"
  /\ Len(issues) = 2
  /\ issues[1] # issues[2]
  /\ unanchored = <<1>>
  /\ \E h \in UnanchoredHeadings :
       /\ Len(UnanchoredLines(h)) = 1
       /\ IsLineOf(UnanchoredLines(h)[1], issues[2])

\* the attempt whose path annotate_docx returns: the last one, when it returns
ReturnedAttempt == saves[Len(saves)]

\* C13: at most two save attempts are made; the second is made only after the
\* first failed with PermissionError and uses another filename than the first;
\* when annotate_docx returns, the attempt whose path it returns succeeded and
\* every earlier one failed; when a save attempt made it raise, that was a
\* first attempt failing otherwise than with PermissionError, or the second
C13_SaveAttempts ==
  /\ Len(saves) <= 2
  /\ Len(saves) >= 1 => saves[1].name = "reviewed"
  /\ Len(saves) = 2 =>
       /\ saves[1].result = "PermissionError"
       /\ saves[2].name # saves[1].name
  /\ pc = "retry" => (Len(saves) = 1 /\ saves[1].result = "PermissionError")
  /\ pc = "done" =>
       /\ saves # <<>>
       /\ ReturnedAttempt.result = "ok"
       /\ \A k \in 1..(Len(saves) - 1) : saves[k].result # "ok"
  /\ (pc = "raised" /\ saves # <<>>) =>
       /\ ReturnedAttempt.result # "ok"
       /\ Len(saves) = 1 => saves[1].result # "PermissionError"

\* C13 witness: the first attempt failed with PermissionError, the second,
\* under the unique name, succeeded and annotate_docx returned
C13_Witness ==
  /\ pc = "done"
  /\ Len(saves) = 2
  /\ saves[1] = [name |-> "reviewed", result |-> "PermissionError"]
  /\ saves[2] = [name |-> "reviewed_unique", result |-> "ok"]

\* two elements of a paragraph are the same element, highlighting aside
SameElement(a, b) == [a EXCEPT !.hl = FALSE] = [b EXCEPT !.hl = FALSE]

\* C14: whenever a step of the annotation loop writes a structured comment,
\* the paragraph afterwards opens with the range start, holds the elements it
\* held before in their order, then the range end, then the reference (and
\* then the inline note); the three markers and the comment appended to the
\* store carry one and the same id, the one allocated in that step
C14_MarkerPlacement ==
  [][(Len(writes') = Len(writes) + 1 /\ writes'[Len(writes')].commented) =>
       LET w == writes'[Len(writes')]
           id == ToStr(Val(w.id))
           old == doc[w.para + 1].els
           new == doc'[w.para + 1].els
           n == Len(old)
       IN  /\ Len(new) = n + 4
           /\ new[1] = Marker("start", id)
           /\ \A k \in 1..n : SameElement(new[k + 1], old[k])
           /\ SameElement(new[n + 2], Marker("end", id))
           /\ SameElement(new[n + 3], Marker("ref", id))
           /\ new[n + 4].fmt = "note"
           /\ Len(store'.comments) = Len(store.comments) + 1
           /\ store'.comments[Len(store'.comments)].id = Some(id)
           /\ \A k \in 1..Len(store.comments) : store'.comments[k] = store.comments[k]
           /\ \A k \in 1..Len(doc) : k # w.para + 1 => doc'[k] = doc[k]]_vars

\* C14 witness: a paragraph that held text got a structured comment; its
\* elements are the start, the text, the end, the reference and the note, and
\* the markers and the last comment of the store carry the same id
C14_Witness ==
  /\ pc = "annotate"
  /\ Len(writes) = 1
  /\ writes[1].commented
  /\ LET els == doc[writes[1].para + 1].els
          id == ToStr(Val(writes[1].id))
     IN  /\ Len(els) = 5
         /\ els[1] = Marker("start", id)
         /\ els[2].kind = "run" /\ els[2].text # ""
         /\ els[3].kind = "end" /\ els[3].id = id
         /\ els[4].kind = "ref" /\ els[4].id = id
         /\ store.comments[Len(store.comments)].id = Some(id)

\* the paragraph holds an inline note with the given body
HasNote(p, body) ==
  \E k \in 1..Len(p.els) :
    /\ p.els[k].kind = "run"
    /\ p.els[k].fmt = "note"
    /\ p.els[k].text = " [Comment: " \o body \o "] "

\* C15: when the comment store can be neither located nor created, no
\* structured comment is written (no comment in the store, no marker in any
\* paragraph), every group handled still gets its inline note with the group's
\* consolidated text, and once a group was handled that way the loop handles
\* all remaining groups: annotate_docx raises only from saving the file
C15_StoreFailureAbsorbed ==
  ~store.avail =>
    /\ store.comments = <<>>
    /\ \A k \in 1..Len(doc) : \A i \in 1..Len(doc[k].els) :
         doc[k].els[i].kind \notin {"start", "end", "ref"}
    /\ \A j \in 1..Len(writes) :
         /\ ~writes[j].commented
         /\ writes[j].body = NoteText(issues, groups[writes[j].p_idx])
         /\ HasNote(doc[writes[j].para + 1], writes[j].body)
    /\ (writes # <<>> /\ pc = "raised") => saves # <<>>
    /\ (writes # <<>> /\ pc \in {"appendix", "save", "retry", "done"}) =>
         Len(writes) = Cardinality(DOMAIN groups)

RECURSIVE ExpectedBody(_, _)
\* the note body for the issues its (in order), numbered from n on, with
\* "[severity] " in every part
ExpectedBody(its, n) ==
  IF its = <<>> THEN ""
  ELSE LET it == Head(its)
           cite == Cite(it)
       IN  ToStr(n) \o ". [" \o it.severity \o "] " \o it.issue
           \o (IF cite # "" THEN " (Per " \o cite \o ")" ELSE "")
           \o (IF it.suggestion # "" THEN " Suggestion: " \o it.suggestion ELSE "")
           \o (IF Tail(its) # <<>> THEN "; " ELSE "")
           \o ExpectedBody(Tail(its), n + 1)

RECURSIVE ExpectedBodySev(_, _)
\* the same, with "[severity] " only in the parts of issues that have a
\* severity
ExpectedBodySev(its, n) ==
  IF its = <<>> THEN ""
  ELSE LET it == Head(its)
           cite == Cite(it)
       IN  ToStr(n) \o ". "
           \o (IF it.severity # "" THEN "[" \o it.severity \o "] " ELSE "")
           \o it.issue
           \o (IF cite # "" THEN " (Per " \o cite \o ")" ELSE "")
           \o (IF it.suggestion # "" THEN " Suggestion: " \o it.suggestion ELSE "")
           \o (IF Tail(its) # <<>> THEN "; " ELSE "")
           \o ExpectedBodySev(Tail(its), n + 1)

\* the issues of the group of the j-th write, in the group's order
GroupIssues(j) ==
  LET g == groups[writes[j].p_idx] IN [k \in 1..Len(g) |-> issues[g[k] + 1]]

\* the group of the j-th write lists its issues in input order
InInputOrder(j) ==
  LET g == groups[writes[j].p_idx] IN \A a, b \in 1..Len(g) : a < b => g[a] < g[b]

\* C16 as stated: the note body of every group is the "; "-joined list of the
\* parts "n. [severity] text", with " (Per citation)" and " Suggestion: ..."
\* only when present, over the group's issues in input order from 1
C16_NoteBodyAlwaysSeverity ==
  \A j \in 1..Len(writes) :
    /\ InInputOrder(j)
    /\ writes[j].body = ExpectedBody(GroupIssues(j), 1)
    /\ HasNote(doc[writes[j].para + 1], writes[j].body)

\* C16 amended: as stated, except that "[severity] " is part of "n. text"
\* only when the issue's severity is not empty
C16_NoteBody ==
  \A j \in 1..Len(writes) :
    /\ InInputOrder(j)
    /\ writes[j].body = ExpectedBodySev(GroupIssues(j), 1)
    /\ HasNote(doc[writes[j].para + 1], writes[j].body)

\* C16 witness: a group of two issues, the first with severity and without
\* citation or suggestion, the second without severity
C16_Witness ==
  /\ Len(writes) = 1
  /\ issues = <<IssueJur, IssuePlain>>
  /\ writes[1].body = "1. [High] Jurisdiction references non-ADGM courts."
                       \o "; 2. Court named is outside ADGM."

\* the positions (0-based) of the issues handled so far whose text is
\* "Missing explicit signatory section." and for which no paragraph held the
\* 30-character prefix of a candidate (the substring strategy returned none)
SignatoryUnmatched ==
  {k \in 0..(cur - 1) :
     /\ issues[k + 1].issue = "Missing explicit signatory section."
     /\ decision[k + 1].sub = None}

\* C20: such an issue gets no paragraph from the keyword strategy nor from
\* the semantic strategy; it is in the unanchored list and in no group, no
\* note written holds it, and once the unanchored section is written it
\* holds the issue's line
C20_SignatoryUnanchored ==
  \A k \in SignatoryUnmatched :
    /\ decision[k + 1].kw = None
    /\ decision[k + 1].sem = None
    /\ decision[k + 1].p_idx = None
    /\ InUnanchored(k) = 1
    /\ InGroups(k) = 0
    /\ \A j \in 1..Len(writes) : \A i \in 1..Len(groups[writes[j].p_idx]) :
         groups[writes[j].p_idx][i] # k
    /\ UnanchoredWritten =>
         \E h \in UnanchoredHeadings : \E i \in 1..Len(UnanchoredLines(h)) :
           IsLineOf(UnanchoredLines(h)[i], issues[k + 1])


\* the ref_ids attached by the cite calls before the k-th one
AttachedBefore(k) == {cited[j].refs[1] : j \in {x \in 1..(k - 1) : cited[x].refs # <<>>}}

\* C17 as the specification states it: within one document's compliance check
\* the ref_ids that cite attaches as evidence are pairwise distinct across all
\* of its retrieval calls.
C17_CitedDistinct ==
  \A a, b \in 1..Len(cited) :
    (a < b /\ cited[a].refs # <<>> /\ cited[b].refs # <<>>) =>
      cited[a].refs[1] # cited[b].refs[1]

\* C17 (amended): every cite call whose result list holds a ref_id not attached
\* by an earlier call of the same check attaches such a ref_id, so ref_ids
\* repeat only when a call's result list holds nothing new: that call attaches
\* the ref_id of its first hit again, and a call with no hits attaches nothing.
C17_CitedDistinctOrExhausted ==
  \A k \in 1..Len(cited) :
    LET hs == cited[k].hits
        fresh == {a \in 1..Len(hs) : hs[a] \notin AttachedBefore(k)}
    IN  IF fresh # {}
          THEN /\ Len(cited[k].refs) = 1
               /\ \E a \in fresh : cited[k].refs[1] = hs[a]
        ELSE IF hs # <<>> THEN cited[k].refs = <<hs[1]>>
        ELSE cited[k].refs = <<>>

\* C17 witness: three cite calls attached three different ref_ids although the
\* second and third result lists held ref_ids attached before.
C17_Witness ==
  /\ Len(cited) = 3
  /\ C17_CitedDistinct
  /\ \A k \in 2..3 : \E a \in 1..Len(cited[k].hits) : cited[k].hits[a] \in AttachedBefore(k)

\* C18: the ref_id values of the result list of a FaissRetriever.search call
\* are pairwise distinct.
C18_ResultRefsDistinct ==
  \A a, b \in 1..Len(hits) : a # b => hits[a].ref_id # hits[b].ref_id

\* C19: constructing the retriever while the index file, the chunk array or
\* the metadata array is absent fails with the index-unavailable error
\* (the RuntimeError of __init__) and no search is served.
C19_FailFast ==
  (retr.state # "none" /\ ~(corpus.index /\ corpus.chunks /\ corpus.metaFile)) =>
    /\ retr.state = "failed"
    /\ retr.error = "RuntimeError"
    /\ hits = <<>> /\ nsearch = 0 /\ hstep = 0


\* C21: two different input paths of a batch never produce the same output
\* path, so no annotated output written in the batch overwrites another one.
C21_OutputsCollisionSafe ==
  \A a, b \in 1..Len(batch.outputs) :
    batch.paths[batch.outputs[a].input] # batch.paths[batch.outputs[b].input] =>
      batch.outputs[a].path # batch.outputs[b].path

\* the documents of the batch whose annotate_docx call did not fail
NotFailed ==
  {k \in 1..Len(batch.paths) : ~(batch.status = "raised" /\ k = batch.i)}

\* C26: when node_annotate has ended, every document of the batch other than
\* one whose annotation failed has been annotated and has its output path in
\* annotated_paths.
C26_FailureIsolated ==
  batch.status \in {"done", "raised"} =>
    \A k \in NotFailed :
      /\ \E a \in 1..Len(batch.outputs) : batch.outputs[a].input = k
      /\ Basename(batch.paths[k]) \in DOMAIN batch.annotated


\* _short_citation has been applied
CiteApplied == fn.name = "_short_citation" /\ fn.out # <<>>

\* law is a law name as the pattern's first group takes it from a snippet:
\* "ADGM", no comma or line break, "Regulations", optional spaces, a four-digit
\* year at its end (letter case ignored)
IsLawName(law) ==
  LET l == Lower(law)
      n == Len(l)
  IN  /\ n >= 19
      /\ SubSeq(l, 1, 4) = "adgm"
      /\ \A k \in (n - 3)..n : IsDigit(CharAt(l, k))
      /\ \E r \in 5..(n - 14) :
           /\ SubSeq(l, r, r + 10) = "regulations"
           /\ \A k \in 5..(r - 1) : CharAt(l, k) \notin {"\n", "\r", ","}
           /\ \A k \in (r + 11)..(n - 4) : IsSpace(CharAt(l, k))

\* art is an article number: digits, then at most one letter
IsArticleNo(art) ==
  LET n == Len(art)
  IN  /\ n >= 1
      /\ IsDigit(CharAt(art, 1))
      /\ \A k \in 1..(n - 1) : IsDigit(CharAt(art, k))
      /\ IsDigit(CharAt(art, n)) \/ (n >= 2 /\ IsAlpha(CharAt(art, n)))

\* the spans <<a, e>> of the law names in the snippet sn
LawSpans(sn) ==
  LET ls == Lower(sn)
  IN  {x \in {k \in 1..Len(sn) : LitAt(ls, k, "adgm")}
             \X {k \in 1..Len(sn) : IsDigit(CharAt(sn, k))} :
         x[1] < x[2] /\ IsLawName(SubSeq(sn, x[1], x[2]))}

\* the triples <<g, b, c>> of an "Article" or "Art." at g in the snippet sn
\* that is followed, after optional spaces, by an article number at b..c
ArtSpans(sn) ==
  LET ls == Lower(sn)
      ds == {k \in 1..Len(sn) : IsDigit(CharAt(sn, k))}
  IN  {x \in {k \in 1..Len(sn) : LitAt(ls, k, "art")} \X ds \X (1..Len(sn)) :
         LET g == x[1]  b == x[2]  c == x[3]
             w == IF LitAt(ls, g, "article") THEN 7 ELSE IF LitAt(ls, g, "art.") THEN 4 ELSE 0
         IN  /\ w > 0
             /\ g + w <= b /\ b <= c
             /\ \A k \in (g + w)..(b - 1) : IsSpace(CharAt(sn, k))
             /\ IsArticleNo(SubSeq(sn, b, c))}

\* the pairs <<law, art>> of a law name in the snippet sn that is followed,
\* after at most 40 characters of the same line, by "Article" or "Art." and
\* an article number
CitationsIn(sn) ==
  {<<SubSeq(sn, q[1][1], q[1][2]), SubSeq(sn, q[2][2], q[2][3])>> :
     q \in {x \in LawSpans(sn) \X ArtSpans(sn) :
              LET e == x[1][2]  g == x[2][1]
              IN  /\ e < g
                  /\ g - e - 1 <= 40
                  /\ \A k \in (e + 1)..(g - 1) : CharAt(sn, k) # "\n"}}

\* C22 as the specification states it: _short_citation returns the compact
\* citation when the snippet matches the pattern, otherwise the raw ref_id,
\* and it returns an empty string when given an empty snippet.
C22_EmptySnippetEmptyOut ==
  CiteApplied =>
    /\ fn.arg.snippet = "" => fn.out[1] = ""
    /\ fn.out[1] = fn.arg.ref_id
       \/ \E c \in CitationsIn(fn.arg.snippet) : fn.out[1] = c[1] \o ", Art. " \o c[2]

\* C22 (amended): _short_citation never fails: it returns "{Law}, Art. {N}"
\* for a law name and an article number of the snippet when the snippet holds a
\* law name followed within 40 characters of the same line by an article
\* reference, and otherwise the raw ref_id of the evidence; for an empty
\* snippet that is the ref_id too, which is empty only when the evidence has
\* no ref_id.
C22_CitationOrRefId ==
  CiteApplied =>
    LET cs == CitationsIn(fn.arg.snippet)
    IN  IF cs = {} THEN fn.out[1] = fn.arg.ref_id
        ELSE \E c \in cs : fn.out[1] = c[1] \o ", Art. " \o c[2]

\* C22 witness: _short_citation was applied to an evidence with an empty
\* snippet and a ref_id, and returned the ref_id.
C22_Witness ==
  /\ CiteApplied
  /\ fn.arg.snippet = ""
  /\ fn.arg.ref_id # ""
  /\ fn.out = <<fn.arg.ref_id>>

\* _keyword_anchor has been applied
KeywordApplied == fn.name = "_keyword_anchor" /\ fn.out # <<>>

\* the issue text names an absence: it holds "signature", or "adgm" and "not"
AbsenceIssue(text) ==
  Contains(text, "signature") \/ (Contains(text, "adgm") /\ Contains(text, "not"))

\* C28: _keyword_anchor returns a paragraph only for issues whose lowercased
\* text holds "jurisdiction", "court" or "address", and for every issue whose
\* lowercased text holds "signature", or both "adgm" and "not", it returns no
\* paragraph whatever the document contains, even if the text also holds
\* "jurisdiction", "court" or "address".
C28_AbsenceIssuesSkipKeyword ==
  KeywordApplied =>
    LET text == Lower(fn.arg.issue.issue)
    IN  /\ AbsenceIssue(text) => fn.out[1] = None
        /\ fn.out[1] # None =>
             Contains(text, "jurisdiction") \/ Contains(text, "court") \/ Contains(text, "address")

\* C28 witness: an issue text with "signature" and "court" was given together
\* with a document that has a paragraph naming courts, and no paragraph was
\* returned.
C28_Witness ==
  /\ KeywordApplied
  /\ Contains(Lower(fn.arg.issue.issue), "signature")
  /\ Contains(Lower(fn.arg.issue.issue), "court")
  /\ \E k \in 1..Len(fn.arg.texts) : Contains(Lower(fn.arg.texts[k]), "court")
  /\ fn.out = <<None>>

\* the number of paragraphs the loaded file had (the sections annotate_docx
\* appends come after them)
OrigLen ==
  Len(doc)
  - (IF pc \in {"appendix", "save", "retry", "done"}
       THEN Len(UnanchoredSection(issues, unanchored)) ELSE 0)
  - (IF pc \in {"save", "retry", "done"} THEN Len(AppendixSection(issues)) ELSE 0)

\* the issues (0-based positions) for which strategies 1 to 3 returned none
\* and the batch-refinement mapping proposes a paragraph of the document
ProposedOnly ==
  {pos \in 0..(Len(issues) - 1) :
     /\ decision[pos + 1].p_idx = None
     /\ pos \in DOMAIN llm.map
     /\ llm.map[pos] \in 0..(OrigLen - 1)}

\* C23: an issue for which the substring, keyword and semantic strategies
\* returned none but for which the batch-refinement mapping proposes a
\* paragraph is annotated at that paragraph and is not reported as
\* unanchored.
C23_ProposalAnchorsIssue ==
  pc \in {"appendix", "save", "retry", "done"} =>
    \A pos \in ProposedOnly :
      /\ \A k \in 1..Len(unanchored) : unanchored[k] # pos
      /\ \E j \in 1..Len(writes) :
           /\ writes[j].para = llm.map[pos]
           /\ pos \in {groups[writes[j].p_idx][x] : x \in 1..Len(groups[writes[j].p_idx])}

\* the groups written so far that hold several issues and whose note went to
\* a paragraph other than the group's own, as positions in writes
Retargeted ==
  {j \in 1..Len(writes) :
     Len(groups[writes[j].p_idx]) >= 2 /\ writes[j].para # writes[j].p_idx}

\* C24: when the batch-refinement mapping proposes a different paragraph for
\* the first issue of a group that holds several issues, only that first issue
\* is annotated at the proposed paragraph; the remaining issues of the group
\* are annotated at the group's original paragraph.
C24_OnlyFirstRetargeted ==
  \A j \in Retargeted :
    LET iss_list == groups[writes[j].p_idx]
    IN  /\ writes[j].body = NoteText(issues, <<iss_list[1]>>)
        /\ \E e \in 1..Len(doc[writes[j].p_idx + 1].els) :
             /\ doc[writes[j].p_idx + 1].els[e].fmt = "note"
             /\ \A x \in 2..Len(iss_list) :
                  Contains(doc[writes[j].p_idx + 1].els[e].text, issues[iss_list[x] + 1].issue)

\* the text a paragraph had when it was loaded or appended: its runs other
\* than inline notes
OwnText(p) == ElsText(SelectSeq(p.els, LAMBDA e : e.fmt # "note"))

\* C25: all anchor resolution (strategies 1-3 for every issue and the
\* batch-refinement call) completes before the first mutation of the
\* document; paragraphs are added only at the end of the document and only
\* after all group annotations were written; so every paragraph keeps its
\* index and its own text in every step until the document is saved.
C25_ResolutionThenAppend ==
  [][ /\ pc = "resolve" => doc' = doc
      /\ doc' # doc => (cur = Len(issues) /\ llm.kind # "pending")
      /\ Len(doc') >= Len(doc)
      /\ \A k \in 1..Len(doc) :
           /\ doc'[k].style = doc[k].style
           /\ OwnText(doc'[k]) = OwnText(doc[k])
      /\ Len(doc') > Len(doc) =>
           /\ gcur = Cardinality(DOMAIN groups)
           /\ Len(writes) = Cardinality(DOMAIN groups)
           /\ \A k \in 1..Len(doc) : doc'[k] = doc[k]
    ]_vars

\* C25 witness: a document with two different paragraphs was saved after a
\* group annotation was written and both the unanchored section and the
\* appendix were appended.
C25_Witness ==
  /\ pc = "done"
  /\ writes # <<>>
  /\ unanchored # <<>>
  /\ OrigLen = 2
  /\ OwnText(doc[1]) # OwnText(doc[2])
  /\ Len(doc) > OrigLen + Len(UnanchoredSection(issues, unanchored))

\* C27: a failure raised while loading the index or searching it is surfaced
\* to the caller of the operation that performs the retrieval: no operation
\* in which such a failure occurred returns a result, and none goes on
\* running after it.
C27_FailuresSurfaced ==
  caller.failures > 0 => caller.status = "raised"

\* C29: the semantic strategy scores only the non-empty paragraphs: the index
\* it returns is an index into the whole document and never that of a
\* paragraph whose text is empty.
C29_SemanticSkipsEmpty ==
  \A j \in 1..Len(decision) :
    decision[j].sem # None =>
      /\ Val(decision[j].sem) \in 0..(Len(ResolutionTexts) - 1)
      /\ ResolutionTexts[Val(decision[j].sem) + 1] # ""

\* C30: _chunk_text terminates for every text and every pair of
\* max_tokens >= 1 and overlap >= 0.
C30_ChunkTextTerminates == <>(ck.status = "done")

====
